---- MODULE Spec2Model ----
(***************************************************************************)
(* Weather_App: the natural-language lookup pipeline (POST /lookup), its   *)
(* disambiguation classifier and the shared ResolvedLocation store.        *)
(*                                                                         *)
(* Text is kept in the state as TLA+ strings; Spell gives the characters   *)
(* of every string the model uses, so that normalisation and the regular   *)
(* expression of the route work on characters as the JavaScript does.      *)
(***************************************************************************)
EXTENDS Integers, Sequences, FiniteSets, TLC

(* JavaScript's undefined for a string-valued field. *)
Undefined == "undefined"

(* An optional value: <<>> when undefined, <<v>> when v is given. *)
None == <<>>
Some(v) == <<v>>

\* ------------------------------------------------------------------ text

(* The characters of the strings that occur in requests and geocoder data. *)
Spell(s) ==
  CASE
       s = "" -> <<>>
    [] s = "texas" -> <<"t", "e", "x", "a", "s">>
    [] s = "TX" -> <<"T", "X">>
    [] s = "Tx." -> <<"T", "x", ".">>
    [] s = " Texas " -> <<" ", "T", "e", "x", "a", "s", " ">>
    [] s = ". texas" -> <<".", " ", "t", "e", "x", "a", "s">>
    [] s = "Austin" -> <<"A", "u", "s", "t", "i", "n">>
    [] s = "Travis County" -> <<"T", "r", "a", "v", "i", "s", " ", "C", "o", "u", "n", "t", "y">>
    [] s = "New  York" -> <<"N", "e", "w", " ", " ", "Y", "o", "r", "k">>
    [] s = "ny" -> <<"n", "y">>
    [] s = "Texas" -> <<"T", "e", "x", "a", "s">>
    [] s = "New York" -> <<"N", "e", "w", " ", "Y", "o", "r", "k">>
    [] s = "Puerto Rico" -> <<"P", "u", "e", "r", "t", "o", " ", "R", "i", "c", "o">>
    [] s = "puerto rico" -> <<"p", "u", "e", "r", "t", "o", " ", "r", "i", "c", "o">>
    [] s = "Springfield" -> <<"S", "p", "r", "i", "n", "g", "f", "i", "e", "l", "d">>
    [] s = "springfield" -> <<"s", "p", "r", "i", "n", "g", "f", "i", "e", "l", "d">>
    [] s = "Houston" -> <<"H", "o", "u", "s", "t", "o", "n">>
    [] s = "Dallas" -> <<"D", "a", "l", "l", "a", "s">>
    [] s = "El Paso" -> <<"E", "l", " ", "P", "a", "s", "o">>
    [] s = "Laredo" -> <<"L", "a", "r", "e", "d", "o">>
    [] s = "Waco" -> <<"W", "a", "c", "o">>
    [] s = "Plano" -> <<"P", "l", "a", "n", "o">>
    [] s = "here" -> <<"h", "e", "r", "e">>
    [] s = "Where I am?" -> <<"W", "h", "e", "r", "e", " ", "I", " ", "a", "m", "?">>
    [] s = "heretic" -> <<"h", "e", "r", "e", "t", "i", "c">>
    [] s = "   " -> <<" ", " ", " ">>
    [] s = "Illinois" -> <<"I", "l", "l", "i", "n", "o", "i", "s">>
    [] s = "Oregon" -> <<"O", "r", "e", "g", "o", "n">>
    [] s = "Sangamon County" -> <<"S", "a", "n", "g", "a", "m", "o", "n", " ", "C", "o", "u", "n", "t", "y">>
    [] s = "state" -> <<"s", "t", "a", "t", "e">>
    [] s = "State" -> <<"S", "t", "a", "t", "e">>
    [] s = "city" -> <<"c", "i", "t", "y">>
    [] s = "county" -> <<"c", "o", "u", "n", "t", "y">>

(* Every string Spell knows. *)
KnownStrings ==
  {"", "texas", "TX", "Tx.", " Texas ", ". texas", "Austin",
   "Travis County", "New  York", "ny", "Texas", "New York", "Puerto Rico",
   "puerto rico", "Springfield", "springfield", "Houston", "Dallas",
   "El Paso", "Laredo", "Waco", "Plano", "here", "Where I am?", "heretic",
   "   ", "Illinois", "Oregon", "Sangamon County", "state", "State",
   "city", "county"}

(* The string whose characters are cs. *)
Unspell(cs) == CHOOSE s \in KnownStrings : Spell(s) = cs

UpperCase == <<"A", "B", "C", "D", "E", "F", "G", "H", "I", "J", "K", "L", "M", "N", "O", "P", "Q", "R", "S", "T", "U", "V", "W", "X", "Y", "Z">>
LowerCase == <<"a", "b", "c", "d", "e", "f", "g", "h", "i", "j", "k", "l", "m", "n", "o", "p", "q", "r", "s", "t", "u", "v", "w", "x", "y", "z">>

(* String.prototype.toLowerCase on one character. *)
LowerChar(c) ==
  IF \E i \in 1..Len(UpperCase) : UpperCase[i] = c
  THEN LowerCase[CHOOSE i \in 1..Len(UpperCase) : UpperCase[i] = c]
  ELSE c

RECURSIVE ToLowerCase(_)
ToLowerCase(cs) ==
  IF cs = <<>> THEN <<>> ELSE <<LowerChar(Head(cs))>> \o ToLowerCase(Tail(cs))

(* \s of the regular expressions: the whitespace the model's strings use. *)
IsSpace(c) == c \in {" ", "\t"}

RECURSIVE TrimStart(_)
TrimStart(cs) ==
  IF cs # <<>> /\ IsSpace(Head(cs)) THEN TrimStart(Tail(cs)) ELSE cs

RECURSIVE TrimEnd(_)
TrimEnd(cs) ==
  IF cs # <<>> /\ IsSpace(cs[Len(cs)]) THEN TrimEnd(SubSeq(cs, 1, Len(cs) - 1)) ELSE cs

(* String.prototype.trim *)
Trim(cs) == TrimEnd(TrimStart(cs))

IsPeriod(c) == c = "."

(* .replace(/\./g, '') *)
StripPeriods(cs) == SelectSeq(cs, LAMBDA c : ~IsPeriod(c))

(* .replace(/\s+/g, ' '): every maximal run of whitespace becomes one space. *)
RECURSIVE CollapseWhitespace(_)
CollapseWhitespace(cs) ==
  IF cs = <<>> THEN <<>>
  ELSE IF IsSpace(Head(cs))
       THEN <<" ">> \o CollapseWhitespace(TrimStart(cs))
       ELSE <<Head(cs)>> \o CollapseWhitespace(Tail(cs))

(* lookupDisambiguation.js: full state name -> two-letter abbreviation. *)
US_STATE_ABBREVIATIONS ==
  <<
     <<<<"a","l","a","b","a","m","a">>, <<"a","l">>>>,
     <<<<"a","l","a","s","k","a">>, <<"a","k">>>>,
     <<<<"a","r","i","z","o","n","a">>, <<"a","z">>>>,
     <<<<"a","r","k","a","n","s","a","s">>, <<"a","r">>>>,
     <<<<"c","a","l","i","f","o","r","n","i","a">>, <<"c","a">>>>,
     <<<<"c","o","l","o","r","a","d","o">>, <<"c","o">>>>,
     <<<<"c","o","n","n","e","c","t","i","c","u","t">>, <<"c","t">>>>,
     <<<<"d","e","l","a","w","a","r","e">>, <<"d","e">>>>,
     <<<<"f","l","o","r","i","d","a">>, <<"f","l">>>>,
     <<<<"g","e","o","r","g","i","a">>, <<"g","a">>>>,
     <<<<"h","a","w","a","i","i">>, <<"h","i">>>>,
     <<<<"i","d","a","h","o">>, <<"i","d">>>>,
     <<<<"i","l","l","i","n","o","i","s">>, <<"i","l">>>>,
     <<<<"i","n","d","i","a","n","a">>, <<"i","n">>>>,
     <<<<"i","o","w","a">>, <<"i","a">>>>,
     <<<<"k","a","n","s","a","s">>, <<"k","s">>>>,
     <<<<"k","e","n","t","u","c","k","y">>, <<"k","y">>>>,
     <<<<"l","o","u","i","s","i","a","n","a">>, <<"l","a">>>>,
     <<<<"m","a","i","n","e">>, <<"m","e">>>>,
     <<<<"m","a","r","y","l","a","n","d">>, <<"m","d">>>>,
     <<<<"m","a","s","s","a","c","h","u","s","e","t","t","s">>, <<"m","a">>>>,
     <<<<"m","i","c","h","i","g","a","n">>, <<"m","i">>>>,
     <<<<"m","i","n","n","e","s","o","t","a">>, <<"m","n">>>>,
     <<<<"m","i","s","s","i","s","s","i","p","p","i">>, <<"m","s">>>>,
     <<<<"m","i","s","s","o","u","r","i">>, <<"m","o">>>>,
     <<<<"m","o","n","t","a","n","a">>, <<"m","t">>>>,
     <<<<"n","e","b","r","a","s","k","a">>, <<"n","e">>>>,
     <<<<"n","e","v","a","d","a">>, <<"n","v">>>>,
     <<<<"n","e","w"," ","h","a","m","p","s","h","i","r","e">>, <<"n","h">>>>,
     <<<<"n","e","w"," ","j","e","r","s","e","y">>, <<"n","j">>>>,
     <<<<"n","e","w"," ","m","e","x","i","c","o">>, <<"n","m">>>>,
     <<<<"n","e","w"," ","y","o","r","k">>, <<"n","y">>>>,
     <<<<"n","o","r","t","h"," ","c","a","r","o","l","i","n","a">>, <<"n","c">>>>,
     <<<<"n","o","r","t","h"," ","d","a","k","o","t","a">>, <<"n","d">>>>,
     <<<<"o","h","i","o">>, <<"o","h">>>>,
     <<<<"o","k","l","a","h","o","m","a">>, <<"o","k">>>>,
     <<<<"o","r","e","g","o","n">>, <<"o","r">>>>,
     <<<<"p","e","n","n","s","y","l","v","a","n","i","a">>, <<"p","a">>>>,
     <<<<"r","h","o","d","e"," ","i","s","l","a","n","d">>, <<"r","i">>>>,
     <<<<"s","o","u","t","h"," ","c","a","r","o","l","i","n","a">>, <<"s","c">>>>,
     <<<<"s","o","u","t","h"," ","d","a","k","o","t","a">>, <<"s","d">>>>,
     <<<<"t","e","n","n","e","s","s","e","e">>, <<"t","n">>>>,
     <<<<"t","e","x","a","s">>, <<"t","x">>>>,
     <<<<"u","t","a","h">>, <<"u","t">>>>,
     <<<<"v","e","r","m","o","n","t">>, <<"v","t">>>>,
     <<<<"v","i","r","g","i","n","i","a">>, <<"v","a">>>>,
     <<<<"w","a","s","h","i","n","g","t","o","n">>, <<"w","a">>>>,
     <<<<"w","e","s","t"," ","v","i","r","g","i","n","i","a">>, <<"w","v">>>>,
     <<<<"w","i","s","c","o","n","s","i","n">>, <<"w","i">>>>,
     <<<<"w","y","o","m","i","n","g">>, <<"w","y">>>>,
     <<<<"d","i","s","t","r","i","c","t"," ","o","f"," ","c","o","l","u","m","b","i","a">>, <<"d","c">>>>
  >>

(* US_STATE_ABBREVIATIONS[normalizedState]; <<>> when the key is absent. *)
StateAbbrevOf(cs) ==
  IF \E i \in 1..Len(US_STATE_ABBREVIATIONS) : US_STATE_ABBREVIATIONS[i][1] = cs
  THEN US_STATE_ABBREVIATIONS[CHOOSE i \in 1..Len(US_STATE_ABBREVIATIONS) :
                                 US_STATE_ABBREVIATIONS[i][1] = cs][2]
  ELSE <<>>

(* normalizeLocationText(value): String(value || '') then trim, lower-case, *)
(* strip periods, collapse whitespace, in this order.                      *)
normalizeLocationText(value) ==
  CollapseWhitespace(StripPeriods(ToLowerCase(Trim(Spell(value)))))

(* a || b of JavaScript on strings: the first non-empty one. *)
Or2(a, b) == IF a # "" THEN a ELSE b

(* address.city || address.town || address.village *)
CityOf(addr) == Or2(addr.city, Or2(addr.town, addr.village))

(* importance is kept in hundredths: 0.7 is 70. *)
ImportanceThreshold == 70

(* The comparison with the threshold itself admitted. *)
ImportanceAtLeastThreshold(importance) ==
  importance # 0 /\ importance >= ImportanceThreshold

(* result.importance && result.importance > 0.7 *)
ImportanceAboveThreshold(importance) ==
  importance # 0 /\ importance > ImportanceThreshold

(* isStateLevelQuery(locationQuery, result) *)
isStateLevelQuery(locationQuery, result) ==
  LET normalizedQuery == normalizeLocationText(locationQuery)
      normalizedState == normalizeLocationText(result.address.state)
      normalizedCounty == normalizeLocationText(result.address.county)
      normalizedCity == normalizeLocationText(CityOf(result.address))
      normalizedAddresstype == normalizeLocationText(result.addresstype)
      queryMatchesFullStateName == normalizedQuery = normalizedState
      stateAbbrev == StateAbbrevOf(normalizedState)
      queryMatchesStateAbbrev == stateAbbrev # <<>> /\ normalizedQuery = stateAbbrev
      isExplicitStateResult == normalizedAddresstype = Spell("state")
      looksLikeStateBoundary ==
        /\ (result.type = "administrative" \/ result.type = "boundary"
            \/ result.osm_type = "relation")
        /\ ImportanceAboveThreshold(result.importance)
      looksLikeCityOrCounty ==
        normalizedQuery = normalizedCity \/ normalizedQuery = normalizedCounty
  IN IF normalizedQuery = <<>> THEN FALSE
     ELSE IF normalizedState = <<>> THEN FALSE
     ELSE /\ (isExplicitStateResult \/ looksLikeStateBoundary)
          /\ (queryMatchesFullStateName \/ queryMatchesStateAbbrev)
          /\ ~looksLikeCityOrCounty

\* ------------------------------------------------------- geocoder data

(* A Nominatim result.  Absent string fields are "", as every use of them  *)
(* in the routes is through ||, which treats undefined and '' alike;       *)
(* place_id is kept as its decimal text and an absent importance as 0, the *)
(* other falsy value.  importance is in hundredths.                        *)
Place(pid, lat, lon, display, addresstype, type, osm, imp, city, town, county, state) ==
  [place_id |-> pid, lat |-> lat, lon |-> lon, display_name |-> display,
   addresstype |-> addresstype, type |-> type, osm_type |-> osm, importance |-> imp,
   address |-> [city |-> city, town |-> town, village |-> "", county |-> county,
                state |-> state, country |-> "United States"]]

TexasState ==
  Place("1", "31.0000", "-100.0000", "Texas, United States",
        "state", "administrative", "relation", 88, "", "", "", "Texas")
SpringfieldIL ==
  Place("2", "39.7817", "-89.6501", "Springfield, Illinois, USA",
        "city", "administrative", "relation", 82, "Springfield", "", "Sangamon County", "Illinois")
SpringfieldOR ==
  Place("3", "44.0462", "-123.0220", "Springfield, Oregon, USA",
        "city", "administrative", "relation", 71, "Springfield", "", "", "Oregon")
AustinTX ==
  Place("4", "30.2672", "-97.7431", "Austin, Texas, United States",
        "city", "administrative", "relation", 82, "Austin", "", "Travis County", "Texas")
HoustonTX ==
  Place("", "29.7604", "-95.3698", "Houston, Texas, United States",
        "city", "administrative", "relation", 80, "Houston", "", "", "Texas")
(* A second place called Austin in the same state, reported as a town. *)
AustinTown ==
  Place("6", "30.5000", "-97.5000", "Austin, Example County, Texas, United States",
        "town", "administrative", "node", 40, "", "Austin", "", "Texas")
(* A county-only result: no city, town or village. *)
TravisCounty ==
  Place("7", "30.3000", "-97.8000", "Travis County, Texas, United States",
        "county", "administrative", "relation", 60, "", "", "Travis County", "Texas")
DallasTX ==
  Place("8", "32.7767", "-96.7970", "Dallas, Texas, United States",
        "city", "administrative", "relation", 79, "Dallas", "", "", "Texas")
ElPasoTX ==
  Place("9", "31.7619", "-106.4850", "El Paso, Texas, United States",
        "city", "administrative", "relation", 75, "El Paso", "", "", "Texas")
LaredoTX ==
  Place("10", "27.5306", "-99.4803", "Laredo, Texas, United States",
        "city", "administrative", "relation", 70, "Laredo", "", "", "Texas")
WacoTX ==
  Place("11", "31.5493", "-97.1467", "Waco, Texas, United States",
        "city", "administrative", "relation", 69, "Waco", "", "", "Texas")

(* parseFloat on the coordinate strings of the geocoder, in ten-thousandths *)
(* of a degree.                                                            *)
parseFloat(s) ==
  CASE s = "31.0000" -> 310000    [] s = "-100.0000" -> -1000000
    [] s = "39.7817" -> 397817    [] s = "-89.6501" -> -896501
    [] s = "44.0462" -> 440462    [] s = "-123.0220" -> -1230220
    [] s = "30.2672" -> 302672    [] s = "-97.7431" -> -977431
    [] s = "29.7604" -> 297604    [] s = "-95.3698" -> -953698
    [] s = "30.5000" -> 305000    [] s = "-97.5000" -> -975000
    [] s = "30.3000" -> 303000    [] s = "-97.8000" -> -978000
    [] s = "32.7767" -> 327767    [] s = "-96.7970" -> -967970
    [] s = "31.7619" -> 317619    [] s = "-106.4850" -> -1064850
    [] s = "27.5306" -> 275306    [] s = "-99.4803" -> -994803
    [] s = "31.5493" -> 315493    [] s = "-97.1467" -> -971467

(* All sequences over S of length at most n. *)
BoundedSeq(S, n) == UNION {[1..k -> S] : k \in 0..n}

\* ------------------------------------------------- ResolvedLocation store

(* address.city || address.town || address.village || address.county || d *)
PlaceNameOr(addr, d) ==
  Or2(addr.city, Or2(addr.town, Or2(addr.village, Or2(addr.county, d))))

(* locationData.place_id?.toString() || `${lat},${lon}` *)
ExternalIdOf(locationData) ==
  IF locationData.place_id # ""
  THEN <<"place_id", locationData.place_id>>
  ELSE <<"latlon", locationData.lat, locationData.lon>>

(* SELECT id FROM locations WHERE external_id = $1: the rows returned. *)
SelectIdByExternalId(rows, externalId) ==
  SelectSeq(rows, LAMBDA r : r.external_id = externalId)

(* A plain INSERT ... RETURNING id on a table with external_id UNIQUE: a   *)
(* second row for the same external_id is refused with a unique violation. *)
InsertWithoutOnConflict(rows, row) ==
  IF \E i \in 1..Len(rows) : rows[i].external_id = row.external_id
  THEN [rows |-> rows, returning |-> <<>>, error |-> "unique_violation"]
  ELSE [rows |-> Append(rows, row), returning |-> <<row>>, error |-> Undefined]

(* INSERT INTO locations ... ON CONFLICT (external_id) DO NOTHING          *)
(* RETURNING id: one atomic statement; no row is returned on a conflict.   *)
InsertOnConflictDoNothing(rows, row) ==
  IF \E i \in 1..Len(rows) : rows[i].external_id = row.external_id
  THEN [rows |-> rows, returning |-> <<>>, error |-> Undefined]
  ELSE [rows |-> Append(rows, row), returning |-> <<row>>, error |-> Undefined]

(* estimateTimezone(longitude), on ten-thousandths of a degree. *)
estimateTimezone(lng) ==
  IF lng > -820000 THEN "America/New_York"
  ELSE IF lng > -900000 THEN "America/Chicago"
  ELSE IF lng > -1050000 THEN "America/Denver"
  ELSE "America/Los_Angeles"

\* -------------------------------------------------------------- state

VARIABLES
  locations,   \* the locations table: a sequence of rows, in insertion order
  nextId,      \* the next id gen_random_uuid() hands out
  callers,     \* concurrent storeOrGetLocation calls: caller -> its position
  sl,          \* one evaluation of isStateLevelQuery: inputs and result
  http,        \* one request through the retrying HTTP client
  wx,          \* one evaluation of the weather service's functions
  env,         \* the server process: the UTC offset of its time zone, in hours
  saved,       \* the saved_locations table and the requests of its routes
  req,         \* POST /lookup: the parsed body of the request being handled
  pc,          \* POST /lookup: the handler's position
  round,       \* how many requests the client has sent for its question
  intent,      \* the handler's intent, once step 1 set it
  geo,         \* what the geocoder answers to the forward search of the question
  results,     \* searchResponse.data
  chosen,      \* the location carried forward: coordinates, name, stored row
  weatherData, \* what fetchWeatherData returned
  resp,        \* the response sent
  shown,       \* the disambiguation response the client last received
  fx           \* the request's effects: extractor and weather calls, rows before,
               \* the city search's answer

lookupVars == <<req, pc, round, intent, geo, results, chosen, weatherData, resp, shown, fx>>
vars == <<locations, nextId, callers, sl, http, wx, env, saved, req, pc, round, intent, geo, results, chosen,
          weatherData, resp, shown, fx>>

(* Concurrent lookups that reach storeOrGetLocation. *)
NumCallers == 2
Callers == 1..NumCallers

(* What the NWS points call of storeOrGetLocation may answer. *)
NwsTimeZone == "America/Chicago"

IdleCaller == [pc |-> "idle", locationData |-> None, timezone |-> Undefined,
               ret |-> None, path |-> Undefined]
NoPlace == Place("", "", "", "", "", "", "", 0, "", "", "", "")
IdleStateLevel == [pc |-> "idle", query |-> "", result |-> NoPlace, out |-> FALSE]

(* The retrying client before a request: no attempt made, config without  *)
(* __retryCount (kept as 0, the value `|| 0` gives it), nothing settled.   *)
IdleClient ==
  [pc |-> "idle", retryCount |-> 0, log |-> <<>>, delays |-> <<>>, settled |-> "none"]

(* The weather service before a call. *)
IdleWeather == [pc |-> "idle"]

(* A server whose clock runs on UTC. *)
UtcServer == [utcOffset |-> 0]

(* The saved-locations routes with an empty table and no request. *)
IdleSaved == [rows |-> <<>>, requests |-> <<>>, done |-> 0]

(* The row storeOrGetLocation inserts for locationData. *)
LocationRow(id, locationData, timezone) ==
  [id |-> id, external_id |-> ExternalIdOf(locationData),
   name |-> PlaceNameOr(locationData.address, "Unknown"),
   region |-> locationData.address.state,
   country |-> Or2(locationData.address.country, "USA"),
   latitude |-> parseFloat(locationData.lat),
   longitude |-> parseFloat(locationData.lon),
   timezone |-> timezone]

(* The value storeOrGetLocation returns: { id, name, region, country }. *)
StoredLocation(id, locationData) ==
  [id |-> id, name |-> PlaceNameOr(locationData.address, "Unknown"),
   region |-> locationData.address.state,
   country |-> Or2(locationData.address.country, "USA")]

\* ------------------------------- storeOrGetLocation, statement by statement

(* The places concurrent callers resolve. *)
StoreInputs == {AustinTX, HoustonTX, SpringfieldIL}

(* A lookup request reaches storeOrGetLocation(locationData). *)
CallStoreOrGetLocation(c) ==
  /\ callers[c].pc = "idle"
  /\ \E d \in StoreInputs :
       callers' = [callers EXCEPT ![c] = [IdleCaller EXCEPT !.pc = "select", !.locationData = Some(d)]]
  /\ UNCHANGED <<locations, nextId, sl, http, wx, lookupVars, env, saved>>

(* SELECT id FROM locations WHERE external_id = $1; return it when found. *)
SelectExisting(c) ==
  /\ callers[c].pc = "select"
  /\ LET d == callers[c].locationData[1]
         existingLocation == SelectIdByExternalId(locations, ExternalIdOf(d))
     IN IF Len(existingLocation) > 0
        THEN callers' = [callers EXCEPT ![c].pc = "done", ![c].path = "existing",
                                        ![c].ret = Some(StoredLocation(existingLocation[1].id, d))]
        ELSE callers' = [callers EXCEPT ![c].pc = "points",
                                        ![c].timezone = estimateTimezone(parseFloat(d.lon))]
  /\ UNCHANGED <<locations, nextId, sl, http, wx, lookupVars, env, saved>>

(* The NWS points call: its time zone, or the estimate when it fails. *)
FetchTimezone(c) ==
  /\ callers[c].pc = "points"
  /\ \E ok \in BOOLEAN :
       callers' = [callers EXCEPT ![c].pc = "insert",
                     ![c].timezone = IF ok THEN NwsTimeZone ELSE callers[c].timezone]
  /\ UNCHANGED <<locations, nextId, sl, http, wx, lookupVars, env, saved>>

(* The INSERT statement; a thrown error leaves storeOrGetLocation. *)
InsertLocation(c) ==
  /\ callers[c].pc = "insert"
  /\ LET d == callers[c].locationData[1]
         result == InsertOnConflictDoNothing(locations,
                     LocationRow(nextId, d, callers[c].timezone))
     IN /\ locations' = result.rows
        /\ nextId' = IF Len(result.returning) > 0 THEN nextId + 1 ELSE nextId
        /\ callers' =
             IF result.error # Undefined
             THEN [callers EXCEPT ![c].pc = "done", ![c].path = "threw"]
             ELSE IF Len(result.returning) = 0
             THEN [callers EXCEPT ![c].pc = "reselect"]
             ELSE [callers EXCEPT ![c].pc = "done", ![c].path = "inserted",
                                  ![c].ret = Some(StoredLocation(result.returning[1].id, d))]
  /\ UNCHANGED <<sl, http, wx, lookupVars, env, saved>>

(* DO NOTHING fired: fetch the existing id; existing.rows[0].id throws when *)
(* no row is there.                                                        *)
ReselectAfterConflict(c) ==
  /\ callers[c].pc = "reselect"
  /\ LET d == callers[c].locationData[1]
         existing == SelectIdByExternalId(locations, ExternalIdOf(d))
     IN callers' =
          IF Len(existing) = 0
          THEN [callers EXCEPT ![c].pc = "done", ![c].path = "threw"]
          ELSE [callers EXCEPT ![c].pc = "done", ![c].path = "conflict",
                               ![c].ret = Some(StoredLocation(existing[1].id, d))]
  /\ UNCHANGED <<locations, nextId, sl, http, wx, lookupVars, env, saved>>

\* ------------------ the search and reverse routes' storeOrGetLocation

(* let timezone = 'America/New_York' // Default *)
DefaultTimezone == "America/New_York"

(* INSERT INTO locations (...) VALUES (...) RETURNING id, with no ON       *)
(* CONFLICT clause, on the table whose external_id is UNIQUE: a second row *)
(* for one external_id is refused with a unique violation.                 *)
InsertReturningId(rows, row) ==
  IF \E i \in 1..Len(rows) : rows[i].external_id = row.external_id
  THEN [rows |-> rows, returning |-> <<>>, error |-> "unique_violation"]
  ELSE [rows |-> Append(rows, row), returning |-> <<row>>, error |-> Undefined]

(* A search result or a reverse-geocoded place reaches the routes'         *)
(* storeOrGetLocation(locationData).                                       *)
RouteCallStoreOrGetLocation(c) ==
  /\ callers[c].pc = "idle"
  /\ \E d \in StoreInputs :
       callers' = [callers EXCEPT ![c] = [IdleCaller EXCEPT !.pc = "select", !.locationData = Some(d)]]
  /\ UNCHANGED <<locations, nextId, sl, http, wx, lookupVars, env, saved>>

(* SELECT id FROM locations WHERE external_id = $1; return the id found. *)
RouteSelectExisting(c) ==
  /\ callers[c].pc = "select"
  /\ LET d == callers[c].locationData[1]
         existingLocation == SelectIdByExternalId(locations, ExternalIdOf(d))
     IN IF Len(existingLocation) > 0
        THEN callers' = [callers EXCEPT ![c].pc = "done", ![c].path = "existing",
                                        ![c].ret = Some(existingLocation[1].id)]
        ELSE callers' = [callers EXCEPT ![c].pc = "points", ![c].timezone = DefaultTimezone]
  /\ UNCHANGED <<locations, nextId, sl, http, wx, lookupVars, env, saved>>

(* The NWS points call: its time zone, or the default when it fails. *)
RouteFetchTimezone(c) ==
  /\ callers[c].pc = "points"
  /\ \E ok \in BOOLEAN :
       callers' = [callers EXCEPT ![c].pc = "insert",
                     ![c].timezone = IF ok THEN NwsTimeZone ELSE callers[c].timezone]
  /\ UNCHANGED <<locations, nextId, sl, http, wx, lookupVars, env, saved>>

(* The INSERT statement and return result.rows[0].id; the statement's      *)
(* error rejects the call and reaches the route's catch.                   *)
RouteInsertLocation(c) ==
  /\ callers[c].pc = "insert"
  /\ LET d == callers[c].locationData[1]
         result == InsertReturningId(locations, LocationRow(nextId, d, callers[c].timezone))
     IN /\ locations' = result.rows
        /\ nextId' = IF Len(result.returning) > 0 THEN nextId + 1 ELSE nextId
        /\ callers' =
             IF result.error # Undefined
             THEN [callers EXCEPT ![c].pc = "done", ![c].path = "threw"]
             ELSE [callers EXCEPT ![c].pc = "done", ![c].path = "inserted",
                                  ![c].ret = Some(result.returning[1].id)]
  /\ UNCHANGED <<sl, http, wx, lookupVars, env, saved>>

(* The status of the request a call belongs to: the route's catch answers  *)
(* 500 GEOCODING_ERROR for a rejected storeOrGetLocation.                  *)
RouteStatus(c) == IF callers[c].path = "threw" THEN 500 ELSE 200

\* ------------------------------------------------- POST /lookup: requests

IntentTypes == {"CURRENT", "DAY"}

(* intent.location as the extractor or the client gives it. *)
IntentLocations == {Undefined, "texas", "springfield", "here", "Where I am?", "   "}

Intents == [intentType : IntentTypes, locationProvided : BOOLEAN, location : IntentLocations]

(* The largest selectedLocationIndex the client tries, besides the         *)
(* out-of-range 5 of the route's test. *)
MaxSelectedIndex == 2
OutOfRangeIndex == 5
SelectedIndexes == (-1..MaxSelectedIndex) \cup {OutOfRangeIndex}

(* The device coordinates, as the decimal text of the numbers. *)
DeviceLocation == [lat |-> "30.2672", lon |-> "-97.7431"]

(* lookupSchema.parse(req.body) *)
Requests ==
  [query : {"what is the weather"},
   currentLocation : {None, Some(DeviceLocation)},
   selectedLocationIndex : {None} \cup {Some(i) : i \in SelectedIndexes},
   intent : {None} \cup {Some(i) : i \in Intents}]

NoRequest == [query |-> "", currentLocation |-> None, selectedLocationIndex |-> None,
              intent |-> None]

\* ---------------------------------------------- POST /lookup: collaborators

(* Forward-search answers: every list of at most MaxResults of these, and  *)
(* one list longer than the limit of 5 the route asks for.                 *)
MaxResults == 2
PrimaryCatalogue == {TexasState, SpringfieldIL, SpringfieldOR}
LongPrimaryAnswer ==
  <<SpringfieldIL, AustinTX, HoustonTX, DallasTX, ElPasoTX, LaredoTX>>
PrimaryAnswers == BoundedSeq(PrimaryCatalogue, MaxResults) \cup {LongPrimaryAnswer}

(* Answers to the "city in <state>" search. *)
MaxCities == 2
CityCatalogue == {AustinTX, HoustonTX, AustinTown, TravisCounty, SpringfieldIL}
LongCityAnswer ==
  <<AustinTX, SpringfieldIL, HoustonTX, AustinTown, DallasTX, TravisCounty,
    ElPasoTX, LaredoTX, WacoTX>>
CityAnswers == BoundedSeq(CityCatalogue, MaxCities) \cup {LongCityAnswer}

(* Reverse-geocode answers for the device coordinates. *)
ReverseAnswers == {AustinTX}

(* A thrown error, as the catch block reads it: error.response?.status,    *)
(* whether it is an OpenAI APIError, and error.status (0: absent).         *)
Thrown(responseStatus, apiError, status) ==
  [responseStatus |-> responseStatus, apiError |-> apiError, status |-> status]

(* Failures of an axios call: no response, or a response with a status. *)
AxiosErrors == {Thrown(0, FALSE, 0), Thrown(404, FALSE, 0), Thrown(500, FALSE, 0)}
(* Failures of the OpenAI client. *)
OpenAIErrors == {Thrown(0, TRUE, 429), Thrown(0, TRUE, 401), Thrown(0, TRUE, 500),
                 Thrown(0, TRUE, 0)}
(* A TypeError or SyntaxError raised by the handler's own code. *)
JsError == Thrown(0, FALSE, 0)

(* The snapshot fetchWeatherData resolves with (the route test's fixture). *)
WeatherSnapshot(locationName) ==
  [location |-> [name |-> locationName],
   current |-> [tempF |-> 61, condition |-> "Partly Cloudy", precipChance |-> 10,
                windMph |-> 6, humidity |-> 70],
   forecast |-> <<[date |-> "2026-02-13",
                   day |-> [condition |-> "Partly Cloudy", maxTempF |-> 64, minTempF |-> 52],
                   hourly |-> <<>>]>>]

\* ------------------------------------------------- POST /lookup: responses

NoResponse ==
  [kind |-> "none", status |-> 0, code |-> "", originalQuery |-> "", locations |-> <<>>,
   intent |-> None, stateName |-> Undefined, summaryText |-> <<>>, card |-> None]

(* res.status(status).json({ error: { code, message } }) *)
ErrorResponse(status, code) ==
  [NoResponse EXCEPT !.kind = "error", !.status = status, !.code = code]

(* The catch block of the route. *)
Catch(error) ==
  IF error.responseStatus = 404 THEN ErrorResponse(404, "LOCATION_NOT_SUPPORTED")
  ELSE IF error.apiError
  THEN LET status == IF error.status # 0 THEN error.status ELSE 500
       IN IF status = 429 THEN ErrorResponse(429, "AI_RATE_LIMITED")
          ELSE IF status = 401 \/ status = 403 THEN ErrorResponse(500, "AI_AUTH_ERROR")
          ELSE ErrorResponse(502, "AI_SERVICE_ERROR")
  ELSE ErrorResponse(500, "LOOKUP_ERROR")

(* One entry of disambiguationOptions. *)
DisambiguationOption(result, index) ==
  [index |-> index,
   name |-> PlaceNameOr(result.address, "Unknown"),
   region |-> result.address.state,
   country |-> Or2(result.address.country, "USA"),
   displayName |-> result.display_name,
   lat |-> parseFloat(result.lat),
   lon |-> parseFloat(result.lon)]

(* list.map((result, index) => option) *)
DisambiguationOptions(list) ==
  [i \in 1..Len(list) |-> DisambiguationOption(list[i], i - 1)]

(* res.json({ requiresDisambiguation: true, originalQuery, locations, intent, stateName }) *)
DisambiguationResponse(originalQuery, options, echoedIntent, stateName) ==
  [NoResponse EXCEPT !.kind = "disambiguation", !.status = 200,
                     !.originalQuery = originalQuery, !.locations = options,
                     !.intent = Some(echoedIntent), !.stateName = stateName]

(* The cap of .slice(0, 5) on both candidate lists. *)
MaxOptions == 5

(* The list without the cap. *)
SliceToAll(list, n) == list

(* array.slice(0, n) *)
SliceTo(list, n) == SubSeq(list, 1, IF Len(list) < n THEN Len(list) ELSE n)

(* The filter of the city search: a city, town or village, in the state    *)
(* asked for, whose name was not seen before.                              *)
RECURSIVE FilterCities(_, _, _)
FilterCities(data, stateName, seen) ==
  IF data = <<>> THEN <<>>
  ELSE LET r == Head(data)
           city == CityOf(r.address)
       IN IF city = "" THEN FilterCities(Tail(data), stateName, seen)
          ELSE IF r.address.state # stateName THEN FilterCities(Tail(data), stateName, seen)
          ELSE IF city \in seen THEN FilterCities(Tail(data), stateName, seen)
          ELSE <<r>> \o FilterCities(Tail(data), stateName, seen \cup {city})

(* The answer of the city search, capped but neither filtered nor          *)
(* deduplicated.                                                           *)
CitiesInUnfiltered(data, stateName) == SliceTo(data, MaxOptions)

(* cities: the filtered, deduplicated and capped answer of the city search. *)
CitiesIn(data, stateName) == SliceTo(FilterCities(data, stateName, {}), MaxOptions)

(* The ambiguity test on the names of the candidates (lines 576-583). *)
HasDistinctNames(list) ==
  Cardinality({PlaceNameOr(list[i].address, "Unknown") : i \in 1..Len(list)}) > 1

(* The ambiguity test without its guard on the selection. *)
IsAmbiguousIgnoringSelection(selectedLocationIndex, isStateLevel, list) ==
  /\ ~isStateLevel
  /\ Len(list) > 1
  /\ HasDistinctNames(list)

(* isAmbiguous *)
IsAmbiguous(selectedLocationIndex, isStateLevel, list) ==
  /\ selectedLocationIndex = None
  /\ ~isStateLevel
  /\ Len(list) > 1
  /\ HasDistinctNames(list)

\* ---------------------------------------------- POST /lookup: step 2 helpers

IsWordChar(c) ==
  \/ \E i \in 1..Len(LowerCase) : LowerCase[i] = c \/ UpperCase[i] = c
  \/ c \in {"0", "1", "2", "3", "4", "5", "6", "7", "8", "9", "_"}

(* The alternatives of the current-location expression. *)
CurrentLocationPhrases ==
  {<<"h", "e", "r", "e">>,
   <<"m", "y", " ", "l", "o", "c", "a", "t", "i", "o", "n">>,
   <<"c", "u", "r", "r", "e", "n", "t", " ", "l", "o", "c", "a", "t", "i", "o", "n">>,
   <<"w", "h", "e", "r", "e", " ", "i", " ", "a", "m">>,
   <<"w", "h", "e", "r", "e", " ", "i", "'", "m", " ", "a", "t">>,
   <<"w", "h", "e", "r", "e", " ", "i", "m", " ", "a", "t">>}

(* /\b(here|my location|...)\b/i.test(cs): a phrase, in any case, that     *)
(* neither follows nor precedes a word character.                          *)
IsNonSpecificLocation(cs) ==
  \E from \in 1..Len(cs), to \in 1..Len(cs) :
    /\ from <= to
    /\ ToLowerCase(SubSeq(cs, from, to)) \in CurrentLocationPhrases
    /\ IF from = 1 THEN TRUE ELSE ~IsWordChar(cs[from - 1])
    /\ IF to = Len(cs) THEN TRUE ELSE ~IsWordChar(cs[to + 1])

(* typeof intent.location === 'string' ? intent.location.trim() : '' *)
LocationToken(i) ==
  IF i.location = Undefined THEN "" ELSE Unspell(Trim(Spell(i.location)))

(* The test on locationProvided alone, the phrases left out. *)
UsesCurrentLocationWhenAbsent(i) == ~i.locationProvided

(* !intent.locationProvided || isNonSpecificLocation *)
UsesCurrentLocation(i) ==
  ~i.locationProvided \/ IsNonSpecificLocation(Spell(LocationToken(i)))

(* storeOrGetLocation that inserts without looking for the row first. *)
StoreOrGetLocationAppending(rows, id, locationData, nwsOk) ==
  LET timezone == IF nwsOk THEN NwsTimeZone
                  ELSE estimateTimezone(parseFloat(locationData.lon))
  IN [rows |-> Append(rows, LocationRow(id, locationData, timezone)), nextId |-> id + 1,
      threw |-> FALSE, askedNws |-> TRUE, ret |-> Some(StoredLocation(id, locationData))]

(* storeOrGetLocation run to its end by one request alone; nwsOk is        *)
(* whether its NWS points call answered.                                   *)
StoreOrGetLocation(rows, id, locationData, nwsOk) ==
  LET existingLocation == SelectIdByExternalId(rows, ExternalIdOf(locationData))
      timezone == IF nwsOk THEN NwsTimeZone
                  ELSE estimateTimezone(parseFloat(locationData.lon))
      result == InsertOnConflictDoNothing(rows, LocationRow(id, locationData, timezone))
      existing == SelectIdByExternalId(result.rows, ExternalIdOf(locationData))
  IN IF Len(existingLocation) > 0
     THEN [rows |-> rows, nextId |-> id, threw |-> FALSE, askedNws |-> FALSE,
           ret |-> Some(StoredLocation(existingLocation[1].id, locationData))]
     ELSE IF result.error # Undefined
     THEN [rows |-> rows, nextId |-> id, threw |-> TRUE, askedNws |-> TRUE, ret |-> None]
     ELSE IF Len(result.returning) = 0
     THEN IF Len(existing) = 0
          THEN [rows |-> result.rows, nextId |-> id, threw |-> TRUE, askedNws |-> TRUE, ret |-> None]
          ELSE [rows |-> result.rows, nextId |-> id, threw |-> FALSE, askedNws |-> TRUE,
                ret |-> Some(StoredLocation(existing[1].id, locationData))]
     ELSE [rows |-> result.rows, nextId |-> id + 1, threw |-> FALSE, askedNws |-> TRUE,
           ret |-> Some(StoredLocation(result.returning[1].id, locationData))]

\* ------------------------------------------ POST /lookup: step 4 helpers

RECURSIVE SumTempF(_)
SumTempF(hours) == IF hours = <<>> THEN 0 ELSE Head(hours).tempF + SumTempF(Tail(hours))

(* Math.round(a / b) for b > 0: the nearest integer, halves upwards. *)
RoundDiv(a, b) == (2 * a + b) \div (2 * b)

(* The distinct conditions of the days, in first-seen order. *)
RECURSIVE UniqueConditions(_, _)
UniqueConditions(days, seen) ==
  IF days = <<>> THEN <<>>
  ELSE IF Head(days).day.condition \in seen THEN UniqueConditions(Tail(days), seen)
  ELSE <<Head(days).day.condition>>
         \o UniqueConditions(Tail(days), seen \cup {Head(days).day.condition})

(* new Date(time).getHours(): the hour of the instant on the clock of the  *)
(* server process, whatever offset the timestamp was written with.         *)
getHours(time) == (time.clock - time.utcOffset + env.utcOffset + 24) % 24

(* v ?? d *)
Nullish(v, d) == IF v = None THEN d ELSE v[1]

(* hour >= startH && hour <= endH *)
InWindow(h, startH, endH) == getHours(h.time) >= startH /\ getHours(h.time) <= endH

(* forecast[0].hourly.filter(...) of the HOURLY_WINDOW branches. *)
WindowHours(i, w) ==
  LET startH == Nullish(i.startHour, 0)
      endH == Nullish(i.endHour, 23)
      Keep(h) == InWindow(h, startH, endH)
  IN SelectSeq(w.forecast[1].hourly, Keep)

(* generateSummaryText(intent, weatherData): the sentence, as its template *)
(* and the values put into it; temperatures are whole degrees.             *)
generateSummaryText(i, w) ==
  LET generic == <<"Weather data retrieved for", w.location.name>>
  IN CASE i.intentType = "CURRENT" ->
            <<"is currently", w.location.name, w.current.condition, w.current.tempF>>
       [] i.intentType = "DAY" ->
            IF Len(w.forecast) > 0
            THEN <<"will be", w.location.name, w.forecast[1].day.condition,
                   w.forecast[1].day.maxTempF, w.forecast[1].day.minTempF>>
            ELSE generic
       [] i.intentType = "HOURLY_WINDOW" ->
            IF Len(w.forecast) > 0
            THEN LET hours == WindowHours(i, w) IN
                 IF Len(hours) > 0
                 THEN <<"will average", w.location.name,
                        RoundDiv(SumTempF(hours), Len(hours)),
                        Nullish(i.startHour, 0), Nullish(i.endHour, 23)>>
                 ELSE generic
            ELSE generic
       [] i.intentType = "DATE_RANGE" ->
            IF Len(w.forecast) > 0
            THEN <<"will have", w.location.name, UniqueConditions(w.forecast, {}),
                   Len(w.forecast)>>
            ELSE generic
       [] OTHER -> generic

(* generateCard(intent, weatherData): the card of each intent type, None   *)
(* for the null it returns when the branch lacks its data.  The route does *)
(* not call it.                                                            *)
generateCard(i, w) ==
  CASE i.intentType = "CURRENT" ->
         Some([type |-> "CURRENT", title |-> w.location.name,
               metrics |-> [temperature |-> w.current.tempF,
                            feelsLike |-> w.current.feelsLikeF,
                            condition |-> w.current.condition,
                            humidity |-> w.current.humidity,
                            windSpeed |-> w.current.windMph]])
    [] i.intentType = "DAY" ->
         IF Len(w.forecast) > 0
         THEN Some([type |-> "DAY", title |-> w.location.name,
                    metrics |-> [high |-> w.forecast[1].day.maxTempF,
                                 low |-> w.forecast[1].day.minTempF,
                                 precipChance |-> w.forecast[1].day.dailyChanceOfRain]])
         ELSE None
    [] i.intentType = "HOURLY_WINDOW" ->
         IF Len(w.forecast) > 0
         THEN LET hours == WindowHours(i, w) IN
              Some([type |-> "HOURLY_WINDOW", title |-> w.location.name,
                    hourlyData |-> [k \in 1..Len(hours) |->
                                      [hour |-> getHours(hours[k].time),
                                       temp |-> hours[k].tempF,
                                       condition |-> hours[k].condition,
                                       precipChance |-> hours[k].chanceOfRain]]])
         ELSE None
    [] i.intentType = "DATE_RANGE" ->
         IF Len(w.forecast) > 0
         THEN Some([type |-> "DATE_RANGE", title |-> w.location.name,
                    dailyData |-> [k \in 1..Len(w.forecast) |->
                                     [date |-> w.forecast[k].date,
                                      high |-> w.forecast[k].day.maxTempF,
                                      low |-> w.forecast[k].day.minTempF,
                                      condition |-> w.forecast[k].day.condition]]])
         ELSE None
    [] OTHER -> None

(* The body of the final res.json: summaryText and the card. *)
FinalResponse(i, w, resolvedLocation) ==
  [NoResponse EXCEPT
     !.kind = "final", !.status = 200,
     !.summaryText = generateSummaryText(i, w),
     !.card = Some(
       [location |->
          [name |-> w.location.name,
           id |-> IF resolvedLocation # None THEN resolvedLocation[1].id ELSE 0,
           region |-> IF resolvedLocation # None THEN resolvedLocation[1].region ELSE Undefined,
           country |-> IF resolvedLocation # None THEN resolvedLocation[1].country ELSE Undefined,
           coordinates |-> w.coordinates],
        current |->
          [temp |-> w.current.tempF, condition |-> w.current.condition,
           tempMax |-> IF Len(w.forecast) > 0 THEN Some(w.forecast[1].day.maxTempF) ELSE None,
           tempMin |-> IF Len(w.forecast) > 0 THEN Some(w.forecast[1].day.minTempF) ELSE None,
           precipitationChance |-> w.current.precipChance,
           windSpeed |-> w.current.windMph, humidity |-> w.current.humidity],
        daily |-> [k \in 1..Len(w.forecast) |->
                     [date |-> w.forecast[k].date, condition |-> w.forecast[k].day.condition,
                      tempMax |-> w.forecast[k].day.maxTempF,
                      tempMin |-> w.forecast[k].day.minTempF]]])]

\* --------------------------------------------------- POST /lookup: handler

(* The effects of a request that has just arrived: calls made so far, the  *)
(* rows the table held, and the answer of the city search once it is made. *)
NoEffects(rows) ==
  [extractorCalls |-> 0, weatherCalls |-> 0, rowsBefore |-> rows, citySearch |-> None,
   forwardCalls |-> 0, reverseCalls |-> 0, extractor |-> "", failed |-> None,
   absorbed |-> {}]

(* f after error was thrown at the given step and reached the handler's    *)
(* catch block.                                                            *)
ThrownAt(f, step, error) == [f EXCEPT !.failed = Some([step |-> step, error |-> error])]

(* f after a failure of the given step was caught where it happened. *)
AbsorbedAt(f, steps) == [f EXCEPT !.absorbed = @ \cup steps]

NoChoice == [lat |-> "", lon |-> "", locationName |-> "", resolvedLocation |-> None]

(* The handler sends r and carries on with the next statement. *)
RespondWithoutReturn(r) ==
  /\ resp' = r
  /\ pc' = pc
  /\ shown' = IF r.kind = "disambiguation" THEN Some(r) ELSE shown

(* The handler sends r and returns. *)
Respond(r) ==
  /\ resp' = r
  /\ pc' = "done"
  /\ shown' = IF r.kind = "disambiguation" THEN Some(r) ELSE shown

(* The client posts its question. *)
ClientSubmit ==
  /\ pc = "idle"
  /\ \E r \in Requests : req' = r
  /\ pc' = "start"
  /\ round' = 1
  /\ fx' = NoEffects(Len(locations))
  /\ UNCHANGED <<locations, nextId, callers, sl, http, wx, intent, geo, results, chosen, weatherData,
                 resp, shown, env, saved>>

(* The rounds a client may spend on one question. *)
MaxRounds == 3

(* After a disambiguation response the client posts the same query again,  *)
(* with the intent it was handed and a selectedLocationIndex.              *)
ClientResubmit ==
  /\ pc = "done"
  /\ resp.kind = "disambiguation"
  /\ round < MaxRounds
  /\ \E i \in SelectedIndexes :
       req' = [req EXCEPT !.selectedLocationIndex = Some(i), !.intent = resp.intent]
  /\ pc' = "start"
  /\ round' = round + 1
  /\ fx' = NoEffects(Len(locations))
  /\ intent' = None
  /\ results' = <<>>
  /\ chosen' = NoChoice
  /\ weatherData' = None
  /\ resp' = NoResponse
  /\ UNCHANGED <<locations, nextId, callers, sl, http, wx, geo, shown, env, saved>>

(* Lines 377-386: the body is parsed; without an API key and without a     *)
(* cached intent the request ends here.                                    *)
Start ==
  /\ pc = "start"
  /\ \E keyConfigured \in BOOLEAN :
       IF ~keyConfigured /\ req.intent = None
       THEN Respond(ErrorResponse(500, "CONFIGURATION_ERROR"))
       ELSE pc' = "intent" /\ UNCHANGED <<resp, shown>>
  /\ UNCHANGED <<locations, nextId, callers, sl, http, wx, req, round, intent, geo, results, chosen,
                 weatherData, fx, env, saved>>

(* What openai.chat.completions.create may do: a tool call whose arguments *)
(* parse to an intent, no tool call, no choice at all, arguments that are  *)
(* no JSON, or a thrown API error.                                         *)
ExtractorOutcomes ==
  {[kind |-> "tool_call", intent |-> Some(i), error |-> JsError] : i \in Intents}
  \cup {[kind |-> k, intent |-> None, error |-> JsError] :
          k \in {"no_tool_call", "no_choice", "bad_arguments"}}
  \cup {[kind |-> "api_error", intent |-> None, error |-> e] : e \in OpenAIErrors}

(* Step 1 when the extractor is asked (lines 394-420). *)
ExtractWithOpenAI ==
  \E o \in ExtractorOutcomes :
    LET asked == [fx EXCEPT !.extractorCalls = @ + 1, !.extractor = o.kind] IN
    CASE o.kind = "tool_call" ->
           intent' = o.intent /\ pc' = "resolve" /\ fx' = asked /\ UNCHANGED <<resp, shown>>
      [] o.kind = "no_tool_call" ->
           /\ Respond(ErrorResponse(400, "INTENT_EXTRACTION_FAILED"))
           /\ fx' = asked
           /\ UNCHANGED intent
      [] OTHER ->
           /\ Respond(Catch(o.error))
           /\ fx' = ThrownAt(asked, IF o.kind = "api_error" THEN "extraction" ELSE "reply",
                             o.error)
           /\ UNCHANGED intent

(* Step 1 asking the extractor whatever the body carries. *)
ExtractIntentAlways ==
  /\ pc = "intent"
  /\ ExtractWithOpenAI
  /\ UNCHANGED <<locations, nextId, callers, sl, http, wx, req, round, geo, results, chosen, weatherData, env, saved>>

(* Step 1: the intent of the body when it carries one, else the extractor. *)
ExtractIntent ==
  /\ pc = "intent"
  /\ IF req.intent # None
     THEN intent' = req.intent /\ pc' = "resolve" /\ UNCHANGED <<resp, shown, fx>>
     ELSE ExtractWithOpenAI
  /\ UNCHANGED <<locations, nextId, callers, sl, http, wx, req, round, geo, results, chosen, weatherData, env, saved>>

(* Lines 431-464: no named place.  The device coordinates are used; the    *)
(* reverse geocode and the store call sit in one try whose catch only      *)
(* warns.                                                                  *)
ResolveCurrentLocation ==
  /\ pc = "resolve"
  /\ UsesCurrentLocation(intent[1])
  /\ IF req.currentLocation = None
     THEN /\ Respond(ErrorResponse(400, "CURRENT_LOCATION_REQUIRED"))
          /\ UNCHANGED <<locations, nextId, chosen, fx>>
     ELSE LET cur == req.currentLocation[1] IN
          /\ pc' = "weather"
          /\ UNCHANGED <<resp, shown>>
          /\ \/ \* the reverse geocode throws
                /\ chosen' = [lat |-> cur.lat, lon |-> cur.lon,
                              locationName |-> "Current Location", resolvedLocation |-> None]
                /\ fx' = AbsorbedAt([fx EXCEPT !.reverseCalls = @ + 1], {"reverse_geocode"})
                /\ UNCHANGED <<locations, nextId>>
             \/ \E reverseData \in ReverseAnswers, nwsOk \in BOOLEAN, dbOk \in BOOLEAN :
                  LET locationName == PlaceNameOr(reverseData.address, "Current Location")
                      locationData == [reverseData EXCEPT !.lat = cur.lat, !.lon = cur.lon]
                      stored == StoreOrGetLocation(locations, nextId, locationData, nwsOk)
                      reversed == [fx EXCEPT !.reverseCalls = @ + 1]
                  IN IF dbOk /\ ~stored.threw
                     THEN /\ chosen' = [lat |-> cur.lat, lon |-> cur.lon,
                                        locationName |-> locationName,
                                        resolvedLocation |-> stored.ret]
                          /\ locations' = stored.rows
                          /\ nextId' = stored.nextId
                          /\ fx' = AbsorbedAt(reversed, IF stored.askedNws /\ ~nwsOk
                                                        THEN {"timezone"} ELSE {})
                     ELSE /\ chosen' = [lat |-> cur.lat, lon |-> cur.lon,
                                        locationName |-> locationName,
                                        resolvedLocation |-> None]
                          /\ fx' = AbsorbedAt(reversed, {"store"})
                          /\ UNCHANGED <<locations, nextId>>
  /\ UNCHANGED <<callers, sl, http, wx, req, round, intent, geo, results, weatherData, env, saved>>

(* Lines 466-496: the forward search for the named place.  The geocoder    *)
(* gives one answer to the question for as long as the client pursues it.  *)
ForwardGeocode ==
  /\ pc = "resolve"
  /\ ~UsesCurrentLocation(intent[1])
  /\ LET locationQuery == LocationToken(intent[1]) IN
     IF locationQuery = ""
     THEN Respond(ErrorResponse(400, "LOCATION_REQUIRED")) /\ UNCHANGED <<geo, results, fx>>
     ELSE LET searched == [fx EXCEPT !.forwardCalls = @ + 1] IN
          \/ \E e \in AxiosErrors :
               /\ Respond(Catch(e))
               /\ fx' = ThrownAt(searched, "geocoding", e)
               /\ UNCHANGED <<geo, results>>
          \/ \E data \in PrimaryAnswers :
                  /\ fx' = searched
                  /\ geo = None \/ geo = Some(data)
                  /\ geo' = Some(data)
                  /\ IF Len(data) = 0
                     THEN Respond(ErrorResponse(404, "LOCATION_NOT_FOUND")) /\ UNCHANGED results
                     ELSE results' = data /\ pc' = "classify" /\ UNCHANGED <<resp, shown>>
  /\ UNCHANGED <<locations, nextId, callers, sl, http, wx, req, round, intent, chosen, weatherData, env, saved>>

(* isStateLevelQuery(locationQuery, firstResult) of the request in hand. *)
IsStateLevel == isStateLevelQuery(LocationToken(intent[1]), results[1])

(* Lines 511-570: a state was named and nothing is selected yet: the city  *)
(* search, then the candidates or LOCATION_TOO_BROAD.                      *)
StateLevelDisambiguation ==
  /\ pc = "classify"
  /\ IsStateLevel /\ req.selectedLocationIndex = None
  /\ LET locationQuery == LocationToken(intent[1])
         stateName == Or2(results[1].address.state, locationQuery)
     IN \/ \E e \in AxiosErrors :
             Respond(Catch(e)) /\ fx' = ThrownAt(fx, "city_search", e)
        \/ \E data \in CityAnswers :
             LET cities == CitiesIn(data, stateName) IN
             /\ fx' = [fx EXCEPT !.citySearch = Some(data)]
             /\ IF Len(cities) > 0
                THEN Respond(DisambiguationResponse(locationQuery,
                                                    DisambiguationOptions(cities),
                                                    intent[1], stateName))
                ELSE Respond(ErrorResponse(400, "LOCATION_TOO_BROAD"))
  /\ UNCHANGED <<locations, nextId, callers, sl, http, wx, req, round, intent, geo, results, chosen,
                 weatherData, env, saved>>

(* The multi-match branch placed after the first candidate was stored. *)
MultiMatchAfterStoring ==
  /\ pc = "classify"
  /\ ~(IsStateLevel /\ req.selectedLocationIndex = None)
  /\ IsAmbiguous(req.selectedLocationIndex, IsStateLevel, results)
  /\ LET stored == StoreOrGetLocation(locations, nextId, results[1], TRUE)
     IN locations' = stored.rows /\ nextId' = stored.nextId
  /\ Respond(DisambiguationResponse(LocationToken(intent[1]),
                                    DisambiguationOptions(SliceTo(results, MaxOptions)),
                                    intent[1], Undefined))
  /\ UNCHANGED <<callers, sl, http, wx, req, round, intent, geo, results, chosen, weatherData, fx, env, saved>>

(* Lines 572-609: several candidates with different names and nothing      *)
(* selected yet: the first five candidates are returned.                   *)
MultiMatchDisambiguation ==
  /\ pc = "classify"
  /\ ~(IsStateLevel /\ req.selectedLocationIndex = None)
  /\ IsAmbiguous(req.selectedLocationIndex, IsStateLevel, results)
  /\ Respond(DisambiguationResponse(LocationToken(intent[1]),
                                    DisambiguationOptions(SliceTo(results, MaxOptions)),
                                    intent[1], Undefined))
  /\ UNCHANGED <<locations, nextId, callers, sl, http, wx, req, round, intent, geo, results, chosen,
                 weatherData, fx, env, saved>>

(* const locationIndex = selectedLocationIndex !== undefined ? selectedLocationIndex : 0 *)
LocationIndex(selectedLocationIndex) ==
  IF selectedLocationIndex # None THEN selectedLocationIndex[1] ELSE 0

(* if (locationIndex >= results.length): INVALID_SELECTION *)
IndexOutOfRange(locationIndex, list) == locationIndex >= Len(list)

(* Lines 611-627: the candidate at the selection index is stored and       *)
(* carried forward.  results[locationIndex] is undefined for an index      *)
(* below 0, and reading its address throws a TypeError.                    *)
SelectLocation ==
  /\ pc = "classify"
  /\ ~(IsStateLevel /\ req.selectedLocationIndex = None)
  /\ ~IsAmbiguous(req.selectedLocationIndex, IsStateLevel, results)
  /\ LET locationIndex == LocationIndex(req.selectedLocationIndex) IN
     IF IndexOutOfRange(locationIndex, results)
     THEN /\ Respond(ErrorResponse(400, "INVALID_SELECTION"))
          /\ UNCHANGED <<locations, nextId, chosen, fx>>
     ELSE IF locationIndex < 0
     THEN /\ Respond(Catch(JsError))
          /\ fx' = ThrownAt(fx, "selection", JsError)
          /\ UNCHANGED <<locations, nextId, chosen>>
     ELSE \E nwsOk \in BOOLEAN, dbOk \in BOOLEAN :
            LET location == results[locationIndex + 1]
                locationName == PlaceNameOr(location.address, LocationToken(intent[1]))
                stored == StoreOrGetLocation(locations, nextId, location, nwsOk)
            IN IF dbOk /\ ~stored.threw
               THEN /\ chosen' = [lat |-> location.lat, lon |-> location.lon,
                                  locationName |-> locationName,
                                  resolvedLocation |-> stored.ret]
                    /\ locations' = stored.rows
                    /\ nextId' = stored.nextId
                    /\ pc' = "weather"
                    /\ fx' = AbsorbedAt(fx, IF stored.askedNws /\ ~nwsOk
                                            THEN {"timezone"} ELSE {})
                    /\ UNCHANGED <<resp, shown>>
               ELSE /\ Respond(Catch(JsError))
                    /\ fx' = ThrownAt(fx, "store", JsError)
                    /\ UNCHANGED <<locations, nextId, chosen>>
  /\ UNCHANGED <<callers, sl, http, wx, req, round, intent, geo, results, weatherData, env, saved>>

(* fetchWeatherData(lat, lon, locationName), then the coordinates are      *)
(* added to what it returned.                                              *)
FetchWeather ==
  /\ pc = "weather"
  /\ \/ \E e \in AxiosErrors :
          /\ Respond(Catch(e))
          /\ fx' = ThrownAt([fx EXCEPT !.weatherCalls = @ + 1], "forecast", e)
          /\ UNCHANGED weatherData
     \/ /\ fx' = [fx EXCEPT !.weatherCalls = @ + 1]
        /\ weatherData' = Some([coordinates |-> [lat |-> parseFloat(chosen.lat),
                                                 lon |-> parseFloat(chosen.lon)]]
                               @@ WeatherSnapshot(chosen.locationName))
        /\ pc' = "compose"
        /\ UNCHANGED <<resp, shown>>
  /\ UNCHANGED <<locations, nextId, callers, sl, http, wx, req, round, intent, geo, results, chosen, env, saved>>

(* Step 4 (lines 639-669): the summary and the card are sent. *)
Compose ==
  /\ pc = "compose"
  /\ Respond(FinalResponse(intent[1], weatherData[1], chosen.resolvedLocation))
  /\ UNCHANGED <<locations, nextId, callers, sl, http, wx, req, round, intent, geo, results, chosen,
                 weatherData, fx, env, saved>>

\* ------------------------------------------- the retrying HTTP client

(* What one attempt may end in: a 2xx response, or an error as the         *)
(* interceptor reads it: whether it has a config, whether it has a         *)
(* response, and the status of the response (0 without one).               *)
Outcome(ok, config, response, status) ==
  [ok |-> ok, config |-> config, response |-> response, status |-> status]

UpstreamOutcomes ==
  {Outcome(TRUE, TRUE, TRUE, 200),
   Outcome(FALSE, TRUE, FALSE, 0),
   Outcome(FALSE, TRUE, TRUE, 500),
   Outcome(FALSE, TRUE, TRUE, 503),
   Outcome(FALSE, TRUE, TRUE, 599),
   Outcome(FALSE, TRUE, TRUE, 400),
   Outcome(FALSE, TRUE, TRUE, 404),
   Outcome(FALSE, TRUE, TRUE, 429),
   Outcome(FALSE, FALSE, FALSE, 0)}

(* The attempts the model lets one request make before it stops looking.   *)
MaxAttempts == 5

(* The cap on retries of the interceptor. *)
RetryLimit == 2

(* The cap tested one retry too late. *)
RetriesExhaustedAfterLimit(retryCount) == retryCount > RetryLimit

(* config.__retryCount >= 2 *)
RetriesExhausted(retryCount) == retryCount >= RetryLimit

(* Every failure with a 4xx or 5xx status taken as transient. *)
IsRetryableAnyFailure(error) ==
  \/ ~error.response
  \/ error.status >= 400 /\ error.status < 600

(* !error.response || (status >= 500 && status < 600) *)
IsRetryable(error) ==
  \/ ~error.response
  \/ error.status >= 500 /\ error.status < 600

RECURSIVE Pow2(_)
(* Math.pow(2, n) for a whole n >= 0 *)
Pow2(n) == IF n = 0 THEN 1 ELSE 2 * Pow2(n - 1)

(* Math.pow(2, config.__retryCount) * 1000, in milliseconds *)
BackoffDelay(retryCount) == Pow2(retryCount) * 1000

(* A caller hands one request to axiosInstance. *)
SendRequest ==
  /\ http.pc = "idle"
  /\ http' = [http EXCEPT !.pc = "attempt"]
  /\ UNCHANGED <<locations, nextId, callers, sl, wx, lookupVars, env, saved>>

(* The rejected handler of the interceptor, up to its await. *)
OnRejected(error) ==
  IF ~error.config \/ RetriesExhausted(http.retryCount)
  THEN [http EXCEPT !.pc = "settled", !.settled = "rejected", !.log = Append(@, error)]
  ELSE IF IsRetryable(error)
  THEN [http EXCEPT !.pc = "backoff", !.log = Append(@, error),
                    !.retryCount = @ + 1,
                    !.delays = Append(@, BackoffDelay(http.retryCount + 1))]
  ELSE [http EXCEPT !.pc = "settled", !.settled = "rejected", !.log = Append(@, error)]

(* One attempt reaches its end: the response passes through, an error goes *)
(* to the rejected handler.                                                *)
Attempt ==
  /\ http.pc = "attempt"
  /\ Len(http.log) < MaxAttempts
  /\ \E o \in UpstreamOutcomes :
       http' = IF o.ok
               THEN [http EXCEPT !.pc = "settled", !.settled = "resolved",
                                 !.log = Append(@, o)]
               ELSE OnRejected(o)
  /\ UNCHANGED <<locations, nextId, callers, sl, wx, lookupVars, env, saved>>

(* The timer of the backoff fires: return axiosInstance(config). *)
BackoffElapsed ==
  /\ http.pc = "backoff"
  /\ http' = [http EXCEPT !.pc = "attempt"]
  /\ UNCHANGED <<locations, nextId, callers, sl, wx, lookupVars, env, saved>>

\* ------------------------------------------------- the weather service

(* A quotient n/d in lowest terms, d > 0: the value of a division whose    *)
(* result need not be whole.                                               *)
RECURSIVE Gcd(_, _)
Gcd(a, b) == IF b = 0 THEN a ELSE Gcd(b, a % b)

Abs(n) == IF n < 0 THEN -n ELSE n

Ratio(n, d) ==
  LET g == Gcd(Abs(n), d) IN [num |-> n \div g, den |-> d \div g]

(* period.startTime.split('T')[0]: the date of an ISO timestamp, whatever  *)
(* its clock time.                                                         *)
DateOf(startTime) == startTime.date

(* The provider stamps its periods with the local time of the forecast     *)
(* point and that zone's UTC offset, here US Central: ...T14:00:00-06:00.  *)
ForecastUtcOffset == -6

(* One period of the daily forecast of the provider. *)
Period(date, isDaytime, temperature) ==
  [startTime |-> [date |-> date, clock |-> IF isDaytime THEN 6 ELSE 18,
                  utcOffset |-> ForecastUtcOffset],
   isDaytime |-> isDaytime, temperature |-> temperature,
   shortForecast |-> IF isDaytime THEN "Sunny" ELSE "Clear",
   probabilityOfPrecipitation |-> IF isDaytime THEN 20 ELSE 30]

(* One period of the hourly forecast. *)
HourlyPeriod(date, clock, temperature, windSpeed, humidity) ==
  [startTime |-> [date |-> date, clock |-> clock, utcOffset |-> ForecastUtcOffset],
   temperature |-> temperature,
   shortForecast |-> "Sunny", windSpeed |-> windSpeed, relativeHumidity |-> humidity,
   probabilityOfPrecipitation |-> 10]

(* parseInt(windSpeed) || 0 on the wind texts of the provider. *)
parseIntOr0(s) ==
  CASE s = "4 mph" -> 4
    [] s = "15 to 20 mph" -> 15
    [] s = "" -> 0

(* The position of the bucket of date in an object keyed by date, 0 when   *)
(* the object has no such key.                                             *)
KeyIndex(byDay, date) ==
  IF \E k \in 1..Len(byDay) : byDay[k].date = date
  THEN CHOOSE k \in 1..Len(byDay) : byDay[k].date = date
  ELSE 0

(* The forEach body with a fresh bucket for every period. *)
PutPeriodInFreshBucket(byDay, period) ==
  Append(byDay, [date |-> DateOf(period.startTime),
                 day |-> IF period.isDaytime THEN Some(period) ELSE None,
                 night |-> IF period.isDaytime THEN None ELSE Some(period)])

(* Lines 84-94, the forEach body: the bucket of the period's date is made  *)
(* when absent, then the period is put in its day or night half.  A date   *)
(* key is not an array index, so the keys keep their insertion order.      *)
PutPeriod(byDay, period) ==
  LET date == DateOf(period.startTime)
      made == IF KeyIndex(byDay, date) = 0
              THEN Append(byDay, [date |-> date, day |-> None, night |-> None])
              ELSE byDay
      k == KeyIndex(made, date)
  IN IF period.isDaytime
     THEN [made EXCEPT ![k].day = Some(period)]
     ELSE [made EXCEPT ![k].night = Some(period)]

(* periods.forEach over forecastByDay. *)
RECURSIVE GroupForecastByDay(_, _)
GroupForecastByDay(periods, byDay) ==
  IF periods = <<>> THEN byDay
  ELSE GroupForecastByDay(Tail(periods), PutPeriod(byDay, Head(periods)))

(* Lines 97-105: hourlyByDay[date].push(period). *)
PushHourly(byDay, period) ==
  LET date == DateOf(period.startTime)
      made == IF KeyIndex(byDay, date) = 0
              THEN Append(byDay, [date |-> date, hours |-> <<>>])
              ELSE byDay
      k == KeyIndex(made, date)
  IN [made EXCEPT ![k].hours = Append(@, period)]

RECURSIVE GroupHourlyByDay(_, _)
GroupHourlyByDay(hourlyPeriods, byDay) ==
  IF hourlyPeriods = <<>> THEN byDay
  ELSE GroupHourlyByDay(Tail(hourlyPeriods), PushHourly(byDay, Head(hourlyPeriods)))

(* hourlyByDay[date] || [] *)
HourlyDataOf(hourlyByDay, date) ==
  IF KeyIndex(hourlyByDay, date) = 0 THEN <<>>
  ELSE hourlyByDay[KeyIndex(hourlyByDay, date)].hours

(* a || b on two halves of a bucket. *)
OrPeriod(a, b) == IF a # None THEN a ELSE b

(* period?.temperature || 0 *)
TemperatureOr0(p) == IF p = None THEN 0 ELSE p[1].temperature

(* period?.temperature ? (period.temperature - 32) * 5/9 : 0, the zero     *)
(* also taken when the temperature is 0.                                   *)
CelsiusOr0(p) ==
  IF p # None /\ p[1].temperature # 0
  THEN Ratio((p[1].temperature - 32) * 5, 9)
  ELSE Ratio(0, 1)

(* The number of days the snapshot keeps: .slice(0, 7). *)
ForecastDays == 7

(* Lines 112-134: the day entry of one bucket. *)
DayEntry(dayData) ==
  LET dayPeriod == OrPeriod(dayData.day, dayData.night)
      nightPeriod == OrPeriod(dayData.night, dayData.day)
  IN [maxTempF |-> TemperatureOr0(dayPeriod),
      maxTempC |-> CelsiusOr0(dayPeriod),
      minTempF |-> TemperatureOr0(nightPeriod),
      minTempC |-> CelsiusOr0(nightPeriod),
      avgTempF |-> IF dayPeriod # None /\ nightPeriod # None
                   THEN Ratio(dayPeriod[1].temperature + nightPeriod[1].temperature, 2)
                   ELSE Ratio(TemperatureOr0(dayPeriod), 1),
      avgTempC |-> IF dayPeriod # None /\ nightPeriod # None
                   THEN Ratio((dayPeriod[1].temperature + nightPeriod[1].temperature - 64) * 5,
                              18)
                   ELSE Ratio(0, 1),
      condition |-> IF dayPeriod # None THEN dayPeriod[1].shortForecast ELSE "Unknown",
      dailyChanceOfRain |->
        LET d == IF dayPeriod # None THEN dayPeriod[1].probabilityOfPrecipitation ELSE 0
            n == IF nightPeriod # None THEN nightPeriod[1].probabilityOfPrecipitation ELSE 0
        IN IF d >= n THEN d ELSE n]

(* Lines 135-148: one hour of an entry. *)
HourEntry(hour) ==
  [time |-> hour.startTime, tempF |-> hour.temperature,
   tempC |-> Ratio((hour.temperature - 32) * 5, 9), condition |-> hour.shortForecast,
   windSpeed |-> hour.windSpeed, humidity |-> hour.relativeHumidity,
   chanceOfRain |-> hour.probabilityOfPrecipitation]

(* Lines 107-150: Object.keys(forecastByDay).slice(0, 7).map(...) *)
BuildForecast(forecastByDay, hourlyByDay) ==
  LET kept == SliceTo(forecastByDay, ForecastDays) IN
  [k \in 1..Len(kept) |->
     LET hourlyData == HourlyDataOf(hourlyByDay, kept[k].date) IN
     [date |-> kept[k].date,
      day |-> DayEntry(kept[k]),
      hourly |-> [h \in 1..Len(hourlyData) |-> HourEntry(hourlyData[h])]]]

\* ---------------------------------------------------- estimateFeelsLike

(* Math.round(35.74 + 0.6215 T - 35.75 V^0.16 + 0.4275 T V^0.16), the      *)
(* values of the double arithmetic on the points the model draws.          *)
WindChill(tempF, windMph) ==
  LET x == <<tempF, windMph>> IN
  CASE x = <<-10, 0>> -> 30 [] x = <<-10, 3>> -> -18 [] x = <<-10, 4>> -> -20 [] x = <<-10, 15>> -> -32
    [] x = <<0, 0>> -> 36 [] x = <<0, 3>> -> -7 [] x = <<0, 4>> -> -9 [] x = <<0, 15>> -> -19
    [] x = <<32, 0>> -> 56 [] x = <<32, 3>> -> 29 [] x = <<32, 4>> -> 28 [] x = <<32, 15>> -> 22
    [] x = <<45, 0>> -> 64 [] x = <<45, 3>> -> 44 [] x = <<45, 4>> -> 43 [] x = <<45, 15>> -> 38
    [] x = <<49, 0>> -> 66 [] x = <<49, 3>> -> 49 [] x = <<49, 4>> -> 48 [] x = <<49, 15>> -> 43
    [] x = <<50, 0>> -> 67 [] x = <<50, 3>> -> 50 [] x = <<50, 4>> -> 49 [] x = <<50, 15>> -> 45
    [] x = <<51, 0>> -> 67 [] x = <<51, 3>> -> 51 [] x = <<51, 4>> -> 50 [] x = <<51, 15>> -> 46
    [] x = <<65, 0>> -> 76 [] x = <<65, 3>> -> 67 [] x = <<65, 4>> -> 66 [] x = <<65, 15>> -> 64
    [] x = <<79, 0>> -> 85 [] x = <<79, 3>> -> 82 [] x = <<79, 4>> -> 82 [] x = <<79, 15>> -> 82
    [] x = <<80, 0>> -> 85 [] x = <<80, 3>> -> 84 [] x = <<80, 4>> -> 84 [] x = <<80, 15>> -> 83
    [] x = <<81, 0>> -> 86 [] x = <<81, 3>> -> 85 [] x = <<81, 4>> -> 85 [] x = <<81, 15>> -> 84
    [] x = <<95, 0>> -> 95 [] x = <<95, 3>> -> 101 [] x = <<95, 4>> -> 101 [] x = <<95, 15>> -> 102

(* Math.round of the heat-index polynomial of lines 194-199 on the points  *)
(* the model draws.                                                        *)
HeatIndex(tempF, humidity) ==
  LET x == <<tempF, humidity>> IN
  CASE x = <<-10, 0>> -> -64 [] x = <<-10, 40>> -> 335 [] x = <<-10, 90>> -> 548
    [] x = <<0, 0>> -> -42 [] x = <<0, 40>> -> 276 [] x = <<0, 90>> -> 427
    [] x = <<32, 0>> -> 16 [] x = <<32, 40>> -> 137 [] x = <<32, 90>> -> 156
    [] x = <<45, 0>> -> 36 [] x = <<45, 40>> -> 104 [] x = <<45, 90>> -> 97
    [] x = <<49, 0>> -> 42 [] x = <<49, 40>> -> 96 [] x = <<49, 90>> -> 85
    [] x = <<50, 0>> -> 43 [] x = <<50, 40>> -> 95 [] x = <<50, 90>> -> 82
    [] x = <<51, 0>> -> 44 [] x = <<51, 40>> -> 93 [] x = <<51, 90>> -> 80
    [] x = <<65, 0>> -> 62 [] x = <<65, 40>> -> 78 [] x = <<65, 90>> -> 64
    [] x = <<79, 0>> -> 77 [] x = <<79, 40>> -> 79 [] x = <<79, 90>> -> 83
    [] x = <<80, 0>> -> 78 [] x = <<80, 40>> -> 80 [] x = <<80, 90>> -> 86
    [] x = <<81, 0>> -> 79 [] x = <<81, 40>> -> 81 [] x = <<81, 90>> -> 88
    [] x = <<95, 0>> -> 91 [] x = <<95, 40>> -> 99 [] x = <<95, 90>> -> 147

WindChillMaxTemp == 50
WindChillMinWind == 3
HeatIndexMinTemp == 80

(* The wind-chill test with a wind of 3 mph counted in. *)
AppliesWindChillFromThree(tempF, windMph) ==
  tempF <= WindChillMaxTemp /\ windMph >= WindChillMinWind

(* if (tempF <= 50 && windMph > 3) *)
AppliesWindChill(tempF, windMph) ==
  tempF <= WindChillMaxTemp /\ windMph > WindChillMinWind

(* if (tempF >= 80) *)
AppliesHeatIndex(tempF) == tempF >= HeatIndexMinTemp

(* estimateFeelsLike(tempF, windMph, humidity): the return statement       *)
(* reached and the value returned.                                         *)
estimateFeelsLike(tempF, windMph, humidity) ==
  IF AppliesWindChill(tempF, windMph)
  THEN [branch |-> "wind_chill", value |-> WindChill(tempF, windMph)]
  ELSE IF AppliesHeatIndex(tempF)
  THEN [branch |-> "heat_index", value |-> HeatIndex(tempF, humidity)]
  ELSE [branch |-> "actual", value |-> tempF]

(* Lines 65-81: the current conditions, from the first hourly period. *)
CurrentOf(currentHourly) ==
  [tempF |-> currentHourly.temperature,
   tempC |-> Ratio((currentHourly.temperature - 32) * 5, 9),
   condition |-> currentHourly.shortForecast,
   windMph |-> parseIntOr0(currentHourly.windSpeed),
   humidity |-> currentHourly.relativeHumidity,
   precipChance |-> currentHourly.probabilityOfPrecipitation,
   feelsLikeF |-> estimateFeelsLike(currentHourly.temperature,
                                    parseIntOr0(currentHourly.windSpeed),
                                    currentHourly.relativeHumidity).value]

(* What fetchWeatherData returns for the two period lists. *)
Snapshot(periods, hourlyPeriods) ==
  [current |-> CurrentOf(hourlyPeriods[1]),
   forecast |-> BuildForecast(GroupForecastByDay(periods, <<>>),
                              GroupHourlyByDay(hourlyPeriods, <<>>))]

(* fetchWeatherData: a request to the provider throws, or the first hourly *)
(* period is missing and reading it throws, or the snapshot is returned.   *)
FetchWeatherData ==
  /\ wx.pc = "called"
  /\ \/ wx' = [wx EXCEPT !.pc = "threw"]
     \/ /\ Len(wx.hourlyPeriods) = 0
        /\ wx' = [wx EXCEPT !.pc = "threw"]
     \/ /\ Len(wx.hourlyPeriods) > 0
        /\ wx' = [wx EXCEPT !.pc = "returned",
                            !.snapshot = Some(Snapshot(wx.periods, wx.hourlyPeriods))]
  /\ UNCHANGED <<locations, nextId, callers, sl, http, req, pc, round, intent, geo, results,
                 chosen, weatherData, resp, shown, fx, env, saved>>

(* One call of estimateFeelsLike. *)
CallEstimateFeelsLike ==
  /\ wx.pc = "called"
  /\ LET r == estimateFeelsLike(wx.tempF, wx.windMph, wx.humidity)
     IN wx' = [wx EXCEPT !.pc = "returned", !.branch = r.branch, !.feelsLike = r.value]
  /\ UNCHANGED <<locations, nextId, callers, sl, http, req, pc, round, intent, geo, results,
                 chosen, weatherData, resp, shown, fx, env, saved>>

\* ------------------------------------------- the saved-locations routes

(* The user whose requests are followed, and another user of the table. *)
SavedUser == "u1"
OtherUser == "u2"

(* The ids of the rows of the locations table, and an id it does not hold. *)
SavedCatalogue == {"A", "B", "C"}
MissingLocation == "Z"

(* Requests of the user that may be in flight together. *)
NumClients == 2
Clients == 1..NumClients

(* The requests followed in one run. *)
MaxRequests == 3

(* Gap for future reordering: maxSortKey + 1000n, minSortKey - 1000n. *)
SortKeyGap == 1000

SavedRow(user, location, sortKey) ==
  [user |-> user, location |-> location, sortKey |-> sortKey]

IdleRequest ==
  [kind |-> "none", pc |-> "idle", location |-> "", after |-> None, afterKey |-> 0,
   newKey |-> 0, status |-> 0, code |-> "", overlapped |-> FALSE,
   savedAtArrival |-> FALSE]

(* SELECT ... FROM saved_locations WHERE user_id = $1 AND location_id = $2 *)
SelectSaved(rows, user, location) ==
  LET Match(r) == r.user = user /\ r.location = location IN SelectSeq(rows, Match)

(* The sort keys of the rows of the user. *)
SortKeysOf(rows, user) ==
  {rows[k].sortKey : k \in {j \in 1..Len(rows) : rows[j].user = user}}

(* SELECT COALESCE(MAX(sort_key), 0) ... WHERE user_id = $1 *)
MaxSortKey(rows, user) ==
  LET keys == SortKeysOf(rows, user) IN
  IF keys = {} THEN 0 ELSE CHOOSE k \in keys : \A j \in keys : j <= k

(* BigInt(SELECT MIN(sort_key) ... WHERE user_id = $1 || 0) *)
MinSortKey(rows, user) ==
  LET keys == SortKeysOf(rows, user) IN
  IF keys = {} THEN 0 ELSE CHOOSE k \in keys : \A j \in keys : k <= j

(* SELECT sort_key ... WHERE user_id = $1 AND sort_key > $2                *)
(* ORDER BY sort_key ASC LIMIT 1: None when no row follows.                *)
NextSortKey(rows, user, afterSortKey) ==
  LET keys == {k \in SortKeysOf(rows, user) : k > afterSortKey} IN
  IF keys = {} THEN None ELSE Some(CHOOSE k \in keys : \A j \in keys : k <= j)

(* BigInt division by 2n: the quotient is truncated towards zero. *)
HalfOf(n) == IF n >= 0 THEN n \div 2 ELSE -((-n) \div 2)

(* newSortKey = (afterSortKey + nextSortKey) / 2n *)
Midpoint(afterSortKey, nextSortKey) == HalfOf(afterSortKey + nextSortKey)

(* UPDATE saved_locations SET sort_key = $1 WHERE user_id = $2 AND         *)
(* location_id = $3                                                        *)
UpdateSortKeyOf(rows, user, location, sortKey) ==
  [k \in 1..Len(rows) |->
     IF rows[k].user = user /\ rows[k].location = location
     THEN [rows[k] EXCEPT !.sortKey = sortKey]
     ELSE rows[k]]

(* The request of client c answers status and code and is over. *)
Answered(r, status, code) ==
  [r EXCEPT !.pc = "done", !.status = status, !.code = code, !.afterKey = 0,
            !.newKey = IF status \in {200, 201} THEN @ ELSE 0]

(* Client c may send a request: it has none in flight and the run has room. *)
MaySend(c) ==
  /\ saved.requests[c].pc \in {"idle", "done"}
  /\ saved.done < MaxRequests

(* The requests after c's request r arrived: r and every request in flight *)
(* then overlap.                                                           *)
Arrived(c, r) ==
  LET busy == {d \in Clients \ {c} : saved.requests[d].pc \notin {"idle", "done"}} IN
  [d \in Clients |->
     IF d = c THEN [r EXCEPT !.overlapped = busy # {}]
     ELSE IF d \in busy THEN [saved.requests[d] EXCEPT !.overlapped = TRUE]
     ELSE saved.requests[d]]

savedOthers ==
  <<locations, nextId, callers, sl, http, wx, env, req, pc, round, intent, geo, results,
    chosen, weatherData, resp, shown, fx>>

(* POST /: the body is parsed, the location is looked up in the locations  *)
(* table and the user's saved row is looked for (lines 104-134).           *)
BeginSave(c) ==
  /\ MaySend(c)
  /\ \E location \in SavedCatalogue \cup {MissingLocation} :
       LET existingResult == SelectSaved(saved.rows, SavedUser, location)
           r == [IdleRequest EXCEPT !.kind = "save", !.location = location,
                                    !.savedAtArrival = Len(existingResult) > 0]
       IN saved' = [saved EXCEPT
            !.done = @ + 1,
            !.requests = Arrived(c,
              IF location \notin SavedCatalogue
              THEN Answered(r, 404, "LOCATION_NOT_FOUND")
              ELSE IF Len(existingResult) > 0
              THEN Answered(r, 409, "LOCATION_ALREADY_SAVED")
              ELSE [r EXCEPT !.pc = "read_max"])]
  /\ UNCHANGED savedOthers

(* Lines 137-144: the largest sort key of the user is read. *)
ReadMaxSortKey(c) ==
  /\ saved.requests[c].pc = "read_max"
  /\ saved' = [saved EXCEPT
       !.requests[c].newKey = MaxSortKey(saved.rows, SavedUser) + SortKeyGap,
       !.requests[c].pc = "insert"]
  /\ UNCHANGED savedOthers

(* A table without the constraint. *)
NoUniqueConstraint(rows, user, location) == FALSE

(* CONSTRAINT unique_user_location UNIQUE (user_id, location_id) *)
ViolatesUniqueUserLocation(rows, user, location) ==
  Len(SelectSaved(rows, user, location)) > 0

(* Lines 146-185: the row is inserted.  The constraint unique_user_location *)
(* rejects a second row of the user for the location with error 23505,     *)
(* which the error handler answers 409 DUPLICATE_ENTRY.                    *)
InsertSaved(c) ==
  /\ saved.requests[c].pc = "insert"
  /\ LET r == saved.requests[c] IN
     IF ViolatesUniqueUserLocation(saved.rows, SavedUser, r.location)
     THEN saved' = [saved EXCEPT !.requests[c] = Answered(r, 409, "DUPLICATE_ENTRY")]
     ELSE saved' = [saved EXCEPT
            !.rows = Append(@, SavedRow(SavedUser, r.location, r.newKey)),
            !.requests[c] = Answered(r, 201, "")]
  /\ UNCHANGED savedOthers

(* PATCH /:locationId/order: the body is parsed and the row to move is     *)
(* selected (lines 242-260).                                               *)
BeginReorder(c) ==
  /\ MaySend(c)
  /\ \E location \in SavedCatalogue, after \in {None} \cup {Some(l) : l \in SavedCatalogue} :
       LET locationToMove == SelectSaved(saved.rows, SavedUser, location)
           r == [IdleRequest EXCEPT !.kind = "reorder", !.location = location,
                                    !.after = after]
       IN saved' = [saved EXCEPT
            !.done = @ + 1,
            !.requests = Arrived(c,
              IF Len(locationToMove) = 0
              THEN Answered(r, 404, "SAVED_LOCATION_NOT_FOUND")
              ELSE IF after = None THEN [r EXCEPT !.pc = "read_min"]
              ELSE [r EXCEPT !.pc = "select_after"])]
  /\ UNCHANGED savedOthers

(* Lines 262-270: to the beginning. *)
ReadMinSortKey(c) ==
  /\ saved.requests[c].pc = "read_min"
  /\ saved' = [saved EXCEPT
       !.requests[c].newKey = MinSortKey(saved.rows, SavedUser) - SortKeyGap,
       !.requests[c].pc = "update"]
  /\ UNCHANGED savedOthers

(* Lines 271-287: the row to follow is selected. *)
SelectAfter(c) ==
  /\ saved.requests[c].pc = "select_after"
  /\ LET r == saved.requests[c]
         afterLocationResult == SelectSaved(saved.rows, SavedUser, r.after[1])
     IN saved' = [saved EXCEPT !.requests[c] =
          IF Len(afterLocationResult) = 0
          THEN Answered(r, 404, "AFTER_LOCATION_NOT_FOUND")
          ELSE [r EXCEPT !.afterKey = afterLocationResult[1].sortKey,
                         !.pc = "select_next"]]
  /\ UNCHANGED savedOthers

(* Lines 289-306: the key of the row that follows, then the new key. *)
SelectNext(c) ==
  /\ saved.requests[c].pc = "select_next"
  /\ LET r == saved.requests[c]
         nextLocationResult == NextSortKey(saved.rows, SavedUser, r.afterKey)
     IN saved' = [saved EXCEPT
          !.requests[c].newKey =
             IF nextLocationResult = None THEN r.afterKey + SortKeyGap
             ELSE Midpoint(r.afterKey, nextLocationResult[1]),
          !.requests[c].pc = "update"]
  /\ UNCHANGED savedOthers

(* Lines 308-318: the sort key of the row is updated and 200 is sent. *)
UpdateSortKey(c) ==
  /\ saved.requests[c].pc = "update"
  /\ LET r == saved.requests[c] IN
     saved' = [saved EXCEPT
       !.rows = UpdateSortKeyOf(@, SavedUser, r.location, r.newKey),
       !.requests[c] = Answered(r, 200, "")]
  /\ UNCHANGED savedOthers

\* ------------------------------------------------------- specifications

IdleLookup ==
  /\ req = NoRequest
  /\ pc = "idle"
  /\ round = 0
  /\ intent = None
  /\ geo = None
  /\ results = <<>>
  /\ chosen = NoChoice
  /\ weatherData = None
  /\ resp = NoResponse
  /\ shown = None
  /\ fx = NoEffects(Len(locations))

EmptyStore ==
  /\ locations = <<>>
  /\ nextId = 1

IdleCallers == callers = [c \in Callers |-> IdleCaller]

InitStore ==
  /\ EmptyStore
  /\ IdleCallers
  /\ sl = IdleStateLevel
  /\ http = IdleClient
  /\ env = UtcServer
  /\ saved = IdleSaved
  /\ wx = IdleWeather
  /\ IdleLookup

NextStore ==
  \/ \E c \in Callers : CallStoreOrGetLocation(c)
  \/ \E c \in Callers : SelectExisting(c)
  \/ \E c \in Callers : FetchTimezone(c)
  \/ \E c \in Callers : InsertLocation(c)
  \/ \E c \in Callers : ReselectAfterConflict(c)

(* Concurrent first-time resolutions against one locations table. *)
SpecStore == InitStore /\ [][NextStore]_vars

(* The table as earlier lookups may have left it. *)
EarlierStores == {<<>>, <<LocationRow(1, SpringfieldIL, NwsTimeZone)>>}

InitLookup ==
  /\ locations \in EarlierStores
  /\ nextId = Len(locations) + 1
  /\ IdleCallers
  /\ sl = IdleStateLevel
  /\ http = IdleClient
  /\ env = UtcServer
  /\ saved = IdleSaved
  /\ wx = IdleWeather
  /\ IdleLookup

NextLookup ==
  \/ ClientSubmit
  \/ ClientResubmit
  \/ Start
  \/ ExtractIntent
  \/ ResolveCurrentLocation
  \/ ForwardGeocode
  \/ StateLevelDisambiguation
  \/ MultiMatchDisambiguation
  \/ SelectLocation
  \/ FetchWeather
  \/ Compose

(* One client's question through POST /lookup, over one or two requests. *)
SpecLookup == InitLookup /\ [][NextLookup]_vars

\* ------------------------------------------- isStateLevelQuery on its own

(* The queries put to the classifier: the README's, and spellings that     *)
(* differ from them in case, periods and whitespace.                       *)
StateLevelQueries ==
  {"texas", "TX", "Tx.", " Texas ", ". texas", "Austin", "Travis County",
   "New  York", "ny", "puerto rico", "", "   "}

(* The candidates of the README's check cases. *)
StateFixture ==
  Place("", "", "", "", "state", "administrative", "relation", 88, "", "", "", "Texas")
CityFixture ==
  Place("", "", "", "", "city", "administrative", "relation", 82,
        "Austin", "", "Travis County", "Texas")
CountyFixture ==
  Place("", "", "", "", "county", "administrative", "relation", 82,
        "", "", "Travis County", "Texas")

(* Candidates of every shape the classifier tells apart. *)
StateLevelCandidates ==
  {Place("", "", "", "", addresstype, type, osm, imp, city, town, county, state) :
     addresstype \in {"state", "State", "city"},
     type \in {"administrative", "boundary", "city"},
     osm \in {"relation", "node"},
     imp \in {0, ImportanceThreshold, ImportanceThreshold + 1},
     city \in {"", "Austin", "Texas"},
     town \in {"", "Texas"},
     county \in {"", "New York"},
     state \in {"", "Texas", "New York", "Puerto Rico"}}
  \cup {StateFixture, CityFixture, CountyFixture}

InitStateLevel ==
  /\ EmptyStore
  /\ IdleCallers
  /\ IdleLookup
  /\ http = IdleClient
  /\ env = UtcServer
  /\ saved = IdleSaved
  /\ wx = IdleWeather
  /\ sl \in [pc : {"ready"}, query : StateLevelQueries, result : StateLevelCandidates,
              out : {FALSE}]

(* const isStateLevel = isStateLevelQuery(locationQuery, firstResult) *)
ClassifyCandidate ==
  /\ sl.pc = "ready"
  /\ sl' = [sl EXCEPT !.pc = "done", !.out = isStateLevelQuery(sl.query, sl.result)]
  /\ UNCHANGED <<locations, nextId, callers, http, wx, lookupVars, env, saved>>

NextStateLevel == ClassifyCandidate

(* isStateLevelQuery applied to every query and candidate of the sets. *)
SpecStateLevel == InitStateLevel /\ [][NextStateLevel]_vars

\* ---------------------------------------------------------- properties

(* The second request of a question is answered, and its index names one   *)
(* of the candidates the first response listed.                            *)
SelectedAmongShown ==
  /\ pc = "done" /\ round = 2
  /\ shown # None /\ req.selectedLocationIndex # None
  /\ req.selectedLocationIndex[1] \in 0..(Len(shown[1].locations) - 1)

ShownCandidate == shown[1].locations[req.selectedLocationIndex[1] + 1]

(* C1: when a response listed candidate c at index i and the client sends  *)
(* the query again with the returned intent and selectedLocationIndex = i, *)
(* the geocoder answering as before, the index is accepted, and a final    *)
(* answer carries the name, region and coordinates of c and the id of the  *)
(* row persisted for c.                                                    *)
C1_SelectsShownCandidate ==
  SelectedAmongShown =>
    /\ resp.code # "INVALID_SELECTION"
    /\ resp.kind = "final" =>
         LET location == resp.card[1].location IN
         /\ location.coordinates = [lat |-> ShownCandidate.lat, lon |-> ShownCandidate.lon]
         /\ location.region = ShownCandidate.region
         /\ ShownCandidate.name # "Unknown" => location.name = ShownCandidate.name
         /\ \E k \in 1..Len(locations) :
              /\ locations[k].id = location.id
              /\ locations[k].latitude = ShownCandidate.lat
              /\ locations[k].longitude = ShownCandidate.lon

(* C2: a request whose body carries an intent never invokes the extractor, *)
(* and the intent it resolves with, echoes and composes from is the one    *)
(* supplied.                                                               *)
C2_ExtractionSkipped ==
  (pc # "idle" /\ req.intent # None) =>
    /\ fx.extractorCalls = 0
    /\ intent # None => intent = req.intent
    /\ resp.kind = "disambiguation" =>
         /\ resp.intent = req.intent
         /\ resp.originalQuery = LocationToken(req.intent[1])
    /\ resp.kind = "final" =>
         resp.summaryText = generateSummaryText(req.intent[1], weatherData[1])

C2_Witness ==
  /\ pc = "done" /\ round = 1
  /\ req.intent # None /\ req.selectedLocationIndex = None
  /\ resp.kind = "final"

(* C3: a request that carries selectedLocationIndex ends in a final answer *)
(* or an error, never in a disambiguation response, so a question takes at *)
(* most two requests.                                                      *)
C3_SelectionEndsProtocol ==
  /\ (pc = "done" /\ req.selectedLocationIndex # None) => resp.kind \in {"final", "error"}
  /\ round <= 2

C3_Witness ==
  /\ pc = "done" /\ round = 2
  /\ resp.kind = "final"
  /\ Len(results) > 1 /\ HasDistinctNames(results)

(* The rows of the table that carry externalId. *)
RowsFor(externalId) == {k \in 1..Len(locations) : locations[k].external_id = externalId}

(* C4: however concurrent first-time resolutions interleave, the table     *)
(* never holds two rows with one external_id, and every caller that has    *)
(* finished did not fail and holds the id of the one row of its place.     *)
C4_OneRowPerExternalId ==
  /\ \A i, j \in 1..Len(locations) :
       locations[i].external_id = locations[j].external_id => i = j
  /\ \A c \in Callers :
       callers[c].pc = "done" =>
         LET rows == RowsFor(ExternalIdOf(callers[c].locationData[1])) IN
         /\ callers[c].path # "threw"
         /\ callers[c].ret # None
         /\ Cardinality(rows) = 1
         /\ \A k \in rows : locations[k].id = callers[c].ret[1].id

C4_Witness ==
  \E c, d \in Callers :
    /\ c # d
    /\ callers[c].pc = "done" /\ callers[d].pc = "done"
    /\ callers[c].locationData = callers[d].locationData
    /\ callers[c].path = "inserted" /\ callers[d].path = "conflict"
    /\ callers[c].ret = callers[d].ret

(* C5: a request that reaches the selection with an index outside          *)
(* 0 <= index < results.length, negative ones included, ends with          *)
(* INVALID_SELECTION.                                                      *)
C5_InvalidSelection ==
  (/\ pc = "done" /\ results # <<>>
   /\ req.selectedLocationIndex # None
   /\ req.selectedLocationIndex[1] \notin 0..(Len(results) - 1))
  => resp.kind = "error" /\ resp.code = "INVALID_SELECTION"

(* Two of the candidates are different places with one place name. *)
SameNameDifferentPlaces(list) ==
  \E i, j \in 1..Len(list) :
    /\ i # j
    /\ PlaceNameOr(list[i].address, "Unknown") = PlaceNameOr(list[j].address, "Unknown")
    /\ PlaceNameOr(list[i].address, "Unknown") # "Unknown"
    /\ <<list[i].lat, list[i].lon>> # <<list[j].lat, list[j].lon>>

(* C6: when the forward search returns different places that share one     *)
(* place name and nothing is selected, the response is a disambiguation    *)
(* response listing the candidates, not weather for the first of them.     *)
C6_SameNameDisambiguated ==
  (/\ pc = "done" /\ req.selectedLocationIndex = None
   /\ Len(results) > 1 /\ SameNameDifferentPlaces(results)
   /\ ~isStateLevelQuery(LocationToken(intent[1]), results[1]))
  => /\ resp.kind = "disambiguation"
     /\ \A k \in 1..Len(resp.locations) :
          resp.locations[k].displayName = results[k].display_name

(* C7: with nothing selected, a first candidate that is not state-level,   *)
(* more than one candidate and more than one distinct place name, the      *)
(* response is a disambiguation response that echoes the intent and lists  *)
(* the first candidates, at most 5, in the geocoder's order, each with the *)
(* index of its position counted from 0.                                   *)
C7_MultiMatch ==
  (/\ pc = "done" /\ req.selectedLocationIndex = None
   /\ Len(results) > 1
   /\ ~isStateLevelQuery(LocationToken(intent[1]), results[1])
   /\ Cardinality({PlaceNameOr(results[k].address, "Unknown") : k \in 1..Len(results)}) > 1)
  => /\ resp.kind = "disambiguation"
     /\ resp.intent = intent
     /\ Len(resp.locations) = IF Len(results) < 5 THEN Len(results) ELSE 5
     /\ \A k \in 1..Len(resp.locations) :
          /\ resp.locations[k].index = k - 1
          /\ resp.locations[k].displayName = results[k].display_name
          /\ resp.locations[k].name = PlaceNameOr(results[k].address, "Unknown")
          /\ resp.locations[k].lat = parseFloat(results[k].lat)
          /\ resp.locations[k].lon = parseFloat(results[k].lon)

C7_Witness ==
  /\ pc = "done" /\ resp.kind = "disambiguation"
  /\ fx.citySearch = None
  /\ Len(results) > 5 /\ Len(resp.locations) = 5

(* A result of the city search is in the state asked for and has a city,   *)
(* town or village.                                                        *)
PassesCityFilter(r, target) ==
  /\ r.address.state = target
  /\ r.address.city # "" \/ r.address.town # "" \/ r.address.village # ""

(* C8: with a state-level first candidate and nothing selected, the        *)
(* response lists only results of the city search that are in exactly the  *)
(* target state and have a city, town or village, with pairwise distinct   *)
(* names, at most 5, indexed from 0, with the intent and the state name;   *)
(* when no result of the city search passes, the request fails with        *)
(* LOCATION_TOO_BROAD.                                                     *)
C8_StateLevel ==
  (/\ pc = "done" /\ req.selectedLocationIndex = None
   /\ results # <<>>
   /\ isStateLevelQuery(LocationToken(intent[1]), results[1]))
  => LET target == results[1].address.state IN
     IF fx.citySearch = None THEN resp.kind = "error"
     ELSE LET data == fx.citySearch[1] IN
          IF \A m \in 1..Len(data) : ~PassesCityFilter(data[m], target)
          THEN resp.kind = "error" /\ resp.code = "LOCATION_TOO_BROAD"
          ELSE /\ resp.kind = "disambiguation"
               /\ resp.intent = intent
               /\ resp.stateName = target
               /\ Len(resp.locations) \in 1..5
               /\ \A k \in 1..Len(resp.locations) :
                    /\ resp.locations[k].index = k - 1
                    /\ resp.locations[k].region = target
                    /\ \E m \in 1..Len(data) :
                         /\ PassesCityFilter(data[m], target)
                         /\ resp.locations[k].displayName = data[m].display_name
                         /\ resp.locations[k].name = CityOf(data[m].address)
               /\ \A k, l \in 1..Len(resp.locations) :
                    resp.locations[k].name = resp.locations[l].name => k = l

C8_Witness ==
  /\ pc = "done" /\ resp.kind = "disambiguation"
  /\ fx.citySearch # None
  /\ Len(fx.citySearch[1]) = 9 /\ Len(resp.locations) = 5

(* C9: a request that ends in a disambiguation response has called the     *)
(* weather fetch not once and has left the locations table as it was.      *)
C9_DisambiguationSideEffectFree ==
  (pc = "done" /\ resp.kind = "disambiguation") =>
    /\ fx.weatherCalls = 0
    /\ weatherData = None
    /\ Len(locations) = fx.rowsBefore

C9_Witness ==
  /\ pc = "done" /\ resp.kind = "disambiguation"
  /\ fx.rowsBefore = 1
  /\ Len(resp.locations) = 2

(* The four conditions of state-level detection, on normalized text. *)
StateLevelConditions(query, candidate) ==
  LET q == normalizeLocationText(query)
      state == normalizeLocationText(candidate.address.state)
  IN /\ state # <<>>
     /\ \/ normalizeLocationText(candidate.addresstype) = <<"s", "t", "a", "t", "e">>
        \/ /\ \/ candidate.type \in {"administrative", "boundary"}
              \/ candidate.osm_type = "relation"
           /\ candidate.importance > 70
     /\ \/ q = state
        \/ \E k \in 1..Len(US_STATE_ABBREVIATIONS) :
             US_STATE_ABBREVIATIONS[k] = <<state, q>>
     /\ q # normalizeLocationText(CityOf(candidate.address))
     /\ q # normalizeLocationText(candidate.address.county)

(* C10: isStateLevelQuery is true exactly when the normalized state is not *)
(* empty, the candidate is a state by addresstype or a boundary of         *)
(* importance above 0.7, the normalized query is the state's name or its   *)
(* abbreviation, and the normalized query is neither the candidate's       *)
(* city/town/village nor its county; 'texas' and 'TX' against the Texas    *)
(* state result are state-level, 'Austin' against the city result and      *)
(* 'Travis County' against the county result are not.                      *)
C10_StateLevelExactly ==
  sl.pc = "done" =>
    /\ sl.out <=> StateLevelConditions(sl.query, sl.result)
    /\ (sl.query \in {"texas", "TX"} /\ sl.result = StateFixture) => sl.out
    /\ (sl.query = "Austin" /\ sl.result = CityFixture) => ~sl.out
    /\ (sl.query = "Travis County" /\ sl.result = CountyFixture) => ~sl.out

C10_Witness ==
  /\ sl.pc = "done" /\ sl.out
  /\ sl.query = "Tx."
  /\ sl.result.addresstype = "city" /\ sl.result.type = "boundary"
  /\ sl.result.address.city = "Austin"


(* The intent locations that are current-location phrases, and those that  *)
(* are empty once trimmed.                                                 *)
CurrentLocationWords == {"here", "Where I am?"}
BlankLocations == {Undefined, "   "}

(* C11: when locationProvided is false or the location is a                *)
(* current-location phrase, no forward search is made and the device       *)
(* coordinates are used, CURRENT_LOCATION_REQUIRED being the answer        *)
(* exactly when there are none; otherwise a location that is empty once    *)
(* trimmed gets LOCATION_REQUIRED without a search; otherwise one forward  *)
(* search is made and LOCATION_NOT_FOUND is the answer exactly when it     *)
(* returned nothing.  The three codes exclude each other.                  *)
C11_ResolverOrder ==
  (pc = "done" /\ intent # None) =>
    LET i == intent[1]
        current == ~i.locationProvided \/ i.location \in CurrentLocationWords
        blank == i.location \in BlankLocations
    IN /\ current =>
            /\ fx.forwardCalls = 0
            /\ (resp.code = "CURRENT_LOCATION_REQUIRED") <=> (req.currentLocation = None)
            /\ resp.code \notin {"LOCATION_REQUIRED", "LOCATION_NOT_FOUND"}
            /\ req.currentLocation # None =>
                 /\ fx.weatherCalls = 1
                 /\ chosen.lat = req.currentLocation[1].lat
                 /\ chosen.lon = req.currentLocation[1].lon
       /\ (~current /\ blank) =>
            /\ resp.code = "LOCATION_REQUIRED"
            /\ fx.forwardCalls = 0 /\ fx.reverseCalls = 0 /\ fx.weatherCalls = 0
       /\ (~current /\ ~blank) =>
            /\ fx.forwardCalls = 1 /\ fx.reverseCalls = 0
            /\ resp.code \notin {"CURRENT_LOCATION_REQUIRED", "LOCATION_REQUIRED"}
            /\ (resp.code = "LOCATION_NOT_FOUND") <=> (geo # None /\ geo[1] = <<>>)

C11_Witness ==
  /\ pc = "done" /\ intent # None
  /\ intent[1].locationProvided /\ intent[1].location = "Where I am?"
  /\ req.currentLocation # None
  /\ resp.kind = "final" /\ fx.forwardCalls = 0


InitRetry ==
  /\ EmptyStore
  /\ IdleCallers
  /\ IdleLookup
  /\ sl = IdleStateLevel
  /\ http = IdleClient
  /\ env = UtcServer
  /\ saved = IdleSaved
  /\ wx = IdleWeather

NextRetry ==
  \/ SendRequest
  \/ Attempt
  \/ BackoffElapsed

(* One logical request through the retrying client. *)
SpecRetry == InitRetry /\ [][NextRetry]_vars

(* C12: whatever the upstream does, a request through the client makes at  *)
(* most 3 attempts, at most 2 of them retries, and after the third it is   *)
(* settled: resolved with the response or rejected with the last error.    *)
C12_BoundedRetry ==
  /\ Len(http.log) <= 3
  /\ http.retryCount <= 2
  /\ Len(http.log) = 3 => http.pc = "settled"
  /\ http.pc = "settled" =>
       /\ http.log # <<>>
       /\ http.settled = IF http.log[Len(http.log)].ok THEN "resolved" ELSE "rejected"
  /\ http.pc # "settled" => http.settled = "none"

C12_Witness ==
  /\ http.pc = "settled" /\ http.settled = "rejected"
  /\ Len(http.log) = 3
  /\ http.log[3].status = 503

(* C13: an attempt is followed by another only when it failed with no      *)
(* response or with a 5xx status; a failure with a 4xx status is rejected  *)
(* at once, also after retried failures; the first retry waits 2 s and the *)
(* second 4 s.                                                             *)
C13_RetryCondition ==
  /\ \A k \in 1..Len(http.log) :
       LET o == http.log[k]
           transient == ~o.ok /\ o.config /\ (~o.response \/ o.status \in 500..599)
       IN /\ (k < Len(http.log) \/ http.pc \in {"backoff", "attempt"}) => transient
          /\ (~o.ok /\ o.response /\ o.status \in 400..499) =>
               k = Len(http.log) /\ http.pc = "settled" /\ http.settled = "rejected"
  /\ Len(http.delays) <= 2
  /\ Len(http.delays) >= 1 => http.delays[1] = 2000
  /\ Len(http.delays) >= 2 => http.delays[2] = 4000
  /\ Len(http.delays) = http.retryCount

C13_Witness ==
  /\ http.pc = "settled" /\ http.settled = "rejected"
  /\ Len(http.log) = 3
  /\ http.log[1].status = 500 /\ ~http.log[2].response /\ http.log[3].status = 404
  /\ http.delays = <<2000, 4000>>


\* ------------------------------------------------------------------- C14

(* The code the classification names for a failure thrown at step with     *)
(* error: the forecast provider's 404, the extraction provider's statuses, *)
(* and LOOKUP_ERROR for everything else.                                   *)
ClassifiedCode(step, error) ==
  IF step = "forecast" /\ error.responseStatus = 404 THEN "LOCATION_NOT_SUPPORTED"
  ELSE IF step = "extraction" /\ error.apiError
  THEN IF error.status = 429 THEN "AI_RATE_LIMITED"
       ELSE IF error.status \in {401, 403} THEN "AI_AUTH_ERROR"
       ELSE "AI_SERVICE_ERROR"
  ELSE "LOOKUP_ERROR"

(* C14: a lookup that failed with a thrown error answers with exactly one  *)
(* code: LOCATION_NOT_SUPPORTED for a 404 of the forecast provider,        *)
(* AI_RATE_LIMITED / AI_AUTH_ERROR / AI_SERVICE_ERROR for a failure of the *)
(* extraction provider by its status (429; 401 or 403; any other), and     *)
(* LOOKUP_ERROR for every other failure.                                   *)
C14_ErrorClassification ==
  (pc = "done" /\ fx.failed # None) =>
    /\ resp.kind = "error"
    /\ resp.code = ClassifiedCode(fx.failed[1].step, fx.failed[1].error)


\* ------------------------------------------------------------------- C15

(* The replies of the extractor that carry no usable structured result. *)
UnusableReplies == {"no_tool_call", "no_choice", "bad_arguments"}

(* C15: a request whose extractor reply holds no tool call, no choice or   *)
(* arguments that do not parse ends with INTENT_EXTRACTION_FAILED, and no  *)
(* geocoding, no store write and no weather fetch was made for it.         *)
C15_ExtractionFailed ==
  (pc = "done" /\ fx.extractor \in UnusableReplies) =>
    /\ resp.kind = "error" /\ resp.code = "INTENT_EXTRACTION_FAILED"
    /\ fx.forwardCalls = 0 /\ fx.reverseCalls = 0 /\ fx.weatherCalls = 0
    /\ Len(locations) = fx.rowsBefore


\* ------------------------------------------------------------------- C16

(* The one step whose failure may be absorbed. *)
BestEffortSteps == {"reverse_geocode"}

(* C16: the only failure a request survives is the reverse geocode for the *)
(* display name, which then reads 'Current Location'; a request in which   *)
(* the location store or the timezone lookup failed ends with an error.    *)
C16_OnlyReverseGeocodeAbsorbed ==
  /\ (pc = "done" /\ fx.absorbed \ BestEffortSteps # {}) => resp.kind = "error"
  /\ (pc \in {"weather", "compose", "done"} /\ "reverse_geocode" \in fx.absorbed)
       => chosen.locationName = "Current Location"


\* ------------------------------------------------------------------- C17

(* The place of a handler position in the pipeline: the intent is read     *)
(* (INTENT_READY), the place is resolved (RESOLVING), a candidate is       *)
(* selected and its weather fetched (SELECTED, FETCHING_WEATHER), the      *)
(* answer is composed (COMPOSING), the response is out (DONE).             *)
StageRank(p) ==
  CASE p = "idle" -> 0
    [] p = "start" -> 1
    [] p = "intent" -> 2
    [] p = "resolve" -> 3
    [] p = "classify" -> 4
    [] p = "weather" -> 5
    [] p = "compose" -> 6
    [] p = "done" -> 7

(* r is exactly one of the three payloads, and whole. *)
WholeResponse(r) ==
  \/ /\ r.kind = "final"
     /\ r.summaryText # <<>> /\ r.card # None
     /\ r.code = "" /\ r.locations = <<>>
  \/ /\ r.kind = "disambiguation"
     /\ r.locations # <<>>
     /\ r.code = "" /\ r.summaryText = <<>> /\ r.card = None
  \/ /\ r.kind = "error"
     /\ r.code # ""
     /\ r.locations = <<>> /\ r.summaryText = <<>> /\ r.card = None

MaxPeriods == 14

(* The temperatures of the day and night periods of one forecast. *)
TempPairs ==
  {[day |-> 60, night |-> 40], [day |-> 20, night |-> 0], [day |-> 0, night |-> -10]}

(* A forecast of n periods in calendar order, half days alternating, which *)
(* opens with a day period or, asked in the evening, with a night period.  *)
ChronologicalPeriods(n, opensWithDay, temps) ==
  [k \in 1..n |->
     LET o == IF opensWithDay THEN k - 1 ELSE k IN
     Period(1 + (o \div 2), o % 2 = 0, IF o % 2 = 0 THEN temps.day ELSE temps.night)]

ChronologicalForecasts ==
  {ChronologicalPeriods(n, d, t) : n \in 0..MaxPeriods, d \in BOOLEAN, t \in TempPairs}

(* Short period lists in any order: dates out of order, a date coming      *)
(* back, two day periods of one date.                                      *)
MaxUnordered == 3

UnorderedForecasts ==
  BoundedSeq({Period(d, isDay, t) : d \in 1..2, isDay \in BOOLEAN, t \in {0, 50}},
             MaxUnordered)

(* Hourly lists: none, the hours of three dates in order, hours of one     *)
(* date apart from each other, and hours of a date beyond the seventh.     *)
HourlyForecasts ==
  {<<>>,
   <<HourlyPeriod(1, 20, 45, "4 mph", 40), HourlyPeriod(1, 21, 45, "4 mph", 40),
     HourlyPeriod(2, 0, 32, "", 90), HourlyPeriod(3, 0, 50, "", 90)>>,
   <<HourlyPeriod(2, 9, 80, "15 to 20 mph", 90), HourlyPeriod(1, 9, 65, "", 0),
     HourlyPeriod(2, 10, 81, "", 40)>>,
   <<HourlyPeriod(8, 1, 0, "4 mph", 0), HourlyPeriod(5, 1, 0, "", 0)>>}

InitWeather ==
  /\ EmptyStore
  /\ IdleCallers
  /\ sl = IdleStateLevel
  /\ http = IdleClient
  /\ env = UtcServer
  /\ saved = IdleSaved
  /\ IdleLookup
  /\ \E periods \in ChronologicalForecasts \cup UnorderedForecasts,
        hourlyPeriods \in HourlyForecasts :
       wx = [pc |-> "called", periods |-> periods, hourlyPeriods |-> hourlyPeriods,
             snapshot |-> None]

NextWeather == FetchWeatherData

SpecWeather == InitWeather /\ [][NextWeather]_vars

\* --------------------------------------- specification: estimateFeelsLike

Temperatures == {-10, 0, 32, 45, 49, 50, 51, 65, 79, 80, 81, 95}
WindSpeeds == {0, 3, 4, 15}
Humidities == {0, 40, 90}

InitFeelsLike ==
  /\ EmptyStore
  /\ IdleCallers
  /\ sl = IdleStateLevel
  /\ http = IdleClient
  /\ env = UtcServer
  /\ saved = IdleSaved
  /\ IdleLookup
  /\ \E tempF \in Temperatures, windMph \in WindSpeeds, humidity \in Humidities :
       wx = [pc |-> "called", tempF |-> tempF, windMph |-> windMph, humidity |-> humidity,
             branch |-> "", feelsLike |-> 0]

NextFeelsLike == CallEstimateFeelsLike

SpecFeelsLike == InitFeelsLike /\ [][NextFeelsLike]_vars


\* ------------------------------------------------------------------- C18

(* The start dates of a period list, and where a date is first met. *)
StartDates(periods) == {DateOf(periods[k].startTime) : k \in 1..Len(periods)}

FirstMet(periods, date) ==
  CHOOSE k \in 1..Len(periods) :
    /\ DateOf(periods[k].startTime) = date
    /\ \A j \in 1..(k - 1) : DateOf(periods[j].startTime) # date

(* The hourly periods that start on date, in their order. *)
HoursOn(hourlyPeriods, date) ==
  LET StartsOn(p) == DateOf(p.startTime) = date IN SelectSeq(hourlyPeriods, StartsOn)

(* C18: the forecast of a snapshot has min(7, number of distinct start     *)
(* dates) entries, one per date, in the order in which the dates are first *)
(* met in the period list, the dates left out being met after all the      *)
(* dates kept; the hourly list of an entry holds exactly the hourly        *)
(* periods that start on the entry's date.                                 *)
C18_ForecastGrouping ==
  wx.pc = "returned" =>
    LET forecast == wx.snapshot[1].forecast
        dates == StartDates(wx.periods)
        kept == {forecast[i].date : i \in 1..Len(forecast)}
    IN /\ Len(forecast) = IF Cardinality(dates) < 7 THEN Cardinality(dates) ELSE 7
       /\ kept \subseteq dates
       /\ \A i, j \in 1..Len(forecast) :
            i < j => FirstMet(wx.periods, forecast[i].date)
                       < FirstMet(wx.periods, forecast[j].date)
       /\ \A d \in dates \ kept : \A e \in kept :
            FirstMet(wx.periods, e) < FirstMet(wx.periods, d)
       /\ \A i \in 1..Len(forecast) :
            LET hours == HoursOn(wx.hourlyPeriods, forecast[i].date) IN
            /\ Len(forecast[i].hourly) = Len(hours)
            /\ \A h \in 1..Len(hours) :
                 /\ forecast[i].hourly[h].time = hours[h].startTime
                 /\ forecast[i].hourly[h].tempF = hours[h].temperature

(* Fourteen periods over eight dates give seven entries, the first with    *)
(* its two hours.                                                          *)
C18_Witness ==
  /\ wx.pc = "returned"
  /\ Len(wx.periods) = 14 /\ Cardinality(StartDates(wx.periods)) = 8
  /\ Len(wx.snapshot[1].forecast) = 7
  /\ Len(wx.snapshot[1].forecast[1].hourly) = 2

\* ------------------------------------------------------------------- C19

(* The periods of the list that start on date. *)
PeriodsOn(periods, date) ==
  LET StartsOn(p) == DateOf(p.startTime) = date IN SelectSeq(periods, StartsOn)

(* The bucket of date received day periods only or night periods only. *)
OneSided(periods, date) ==
  LET on == PeriodsOn(periods, date) IN
  \A a, b \in 1..Len(on) : on[a].isDaytime = on[b].isDaytime

(* C19: an entry whose date has only a day half or only a night half takes *)
(* maximum, minimum and average, in Fahrenheit and in Celsius, from the    *)
(* temperature of the half that is present; none of them is a default.     *)
C19_MissingHalfSynthesized ==
  wx.pc = "returned" =>
    \A i \in 1..Len(wx.snapshot[1].forecast) :
      LET entry == wx.snapshot[1].forecast[i]
          on == PeriodsOn(wx.periods, entry.date)
          t == on[Len(on)].temperature
      IN OneSided(wx.periods, entry.date) =>
           /\ entry.day.maxTempF = t /\ entry.day.minTempF = t
           /\ entry.day.avgTempF = Ratio(t, 1)
           /\ entry.day.maxTempC = Ratio((t - 32) * 5, 9)
           /\ entry.day.minTempC = Ratio((t - 32) * 5, 9)
           /\ entry.day.avgTempC = Ratio((t - 32) * 5, 9)


\* ------------------------------------------------------------------- C20

(* C20: estimateFeelsLike returns the wind-chill value exactly when        *)
(* tempF <= 50 and windMph > 3, the heat-index value exactly when          *)
(* tempF >= 80, whatever the humidity, and tempF itself otherwise; at      *)
(* 50 degrees and 3 mph it returns 50.                                     *)
C20_FeelsLikeBranches ==
  wx.pc = "returned" =>
    /\ wx.branch = "wind_chill" <=> (wx.tempF <= 50 /\ wx.windMph > 3)
    /\ wx.branch = "heat_index" <=> wx.tempF >= 80
    /\ wx.branch = "actual" <=> ~(wx.tempF <= 50 /\ wx.windMph > 3) /\ ~(wx.tempF >= 80)
    /\ wx.branch = "wind_chill" => wx.feelsLike = WindChill(wx.tempF, wx.windMph)
    /\ wx.branch = "heat_index" => wx.feelsLike = HeatIndex(wx.tempF, wx.humidity)
    /\ wx.branch = "actual" => wx.feelsLike = wx.tempF
    /\ (wx.tempF = 50 /\ wx.windMph = 3) => wx.feelsLike = 50

(* The boundary of the wind-chill test: 45 degrees at 3 mph feel like 45,  *)
(* where the wind-chill formula gives 44.                                  *)
C20_Witness ==
  /\ wx.pc = "returned"
  /\ wx.tempF = 45 /\ wx.windMph = 3
  /\ wx.feelsLike = 45 /\ WindChill(45, 3) = 44


\* -------------------------------- specification: step 4 of POST /lookup

ComposeIntentTypes == {"CURRENT", "DAY", "HOURLY_WINDOW", "DATE_RANGE"}

(* startHour and endHour as the extractor gives them: absent, or an hour. *)
StartHours == {None, Some(0), Some(9), Some(21)}
EndHours == {None, Some(0), Some(14)}

ComposeIntents ==
  [intentType : ComposeIntentTypes, locationProvided : {TRUE}, location : {"springfield"},
   startHour : StartHours, endHour : EndHours]

(* The hours of the first day and of the next, with different readings. *)
ComposeHours ==
  <<HourlyPeriod(1, 0, 31, "", 90), HourlyPeriod(1, 9, 40, "4 mph", 40),
    HourlyPeriod(1, 14, 51, "4 mph", 40), HourlyPeriod(1, 20, 45, "", 40),
    HourlyPeriod(2, 3, 32, "", 90)>>

(* What fetchWeatherData returned: no daily period at all, one day, a      *)
(* week opening with a night, and a day whose hours are not listed.        *)
ComposeSnapshots ==
  {[location |-> [name |-> "Springfield"],
    coordinates |-> [lat |-> parseFloat("39.7817"), lon |-> parseFloat("-89.6501")]]
     @@ Snapshot(periods, ComposeHours) :
       periods \in {<<>>,
                    ChronologicalPeriods(2, TRUE, [day |-> 60, night |-> 40]),
                    ChronologicalPeriods(MaxPeriods, FALSE, [day |-> 20, night |-> 0]),
                    <<Period(3, TRUE, 60), Period(1, FALSE, 40)>>}}

(* Servers whose clock runs on UTC and on the forecast point's zone. *)
ServerZones == {UtcServer, [utcOffset |-> ForecastUtcOffset]}

InitCompose ==
  /\ EmptyStore
  /\ IdleCallers
  /\ sl = IdleStateLevel
  /\ http = IdleClient
  /\ wx = IdleWeather
  /\ saved = IdleSaved
  /\ env \in ServerZones
  /\ req = NoRequest
  /\ round = 1
  /\ geo = None
  /\ results = <<>>
  /\ shown = None
  /\ resp = NoResponse
  /\ fx = NoEffects(0)
  /\ chosen = [lat |-> "39.7817", lon |-> "-89.6501", locationName |-> "Springfield",
               resolvedLocation |-> None]
  /\ pc = "compose"
  /\ intent \in {Some(i) : i \in ComposeIntents}
  /\ weatherData \in {Some(w) : w \in ComposeSnapshots}

NextCompose == Compose

SpecCompose == InitCompose /\ [][NextCompose]_vars

\* ------------------------------------------------------------------- C21

(* C21: the card of a final response is the card of the intent's type:     *)
(* CURRENT with temperature, feels-like, condition, humidity and wind      *)
(* speed; DAY with the first day's high, low and precipitation chance;     *)
(* HOURLY_WINDOW with the hours of the window; DATE_RANGE with date, high, *)
(* low and condition of each day.                                          *)
C21_IntentSpecificCard ==
  (pc = "done" /\ resp.kind = "final") =>
    resp.card = generateCard(intent[1], weatherData[1])


\* ------------------------------------------------------------------- C22

(* The branch of the intent's type needs the forecast and there is none. *)
BranchDataAbsent(i, w) ==
  i.intentType \in {"DAY", "HOURLY_WINDOW", "DATE_RANGE"} /\ Len(w.forecast) = 0

(* C22: when the data the intent's branch needs is absent the request      *)
(* still succeeds, with the generic sentence 'Weather data retrieved for   *)
(* {location}.' and a null card.                                           *)
C22_GenericFallback ==
  (pc = "done" /\ BranchDataAbsent(intent[1], weatherData[1])) =>
    /\ resp.kind = "final"
    /\ resp.summaryText = <<"Weather data retrieved for", weatherData[1].location.name>>
    /\ resp.card = None

\* ------------------------------------------------------------------- C23

(* The first day's hourly entries whose hour of day lies in the window. *)
HoursOfDayIn(w, startH, endH) ==
  LET Within(h) == startH <= h.time.clock /\ h.time.clock <= endH
  IN SelectSeq(w.forecast[1].hourly, Within)

(* C23: for HOURLY_WINDOW the hours used are the first day's hourly        *)
(* entries whose hour of day h has (startHour ?? 0) <= h <= (endHour ??    *)
(* 23), an hour 0 taken as 0; the summary gives the rounded average of     *)
(* their temperatures, and the generic sentence when there is none.        *)
C23_HourlyWindow ==
  (pc = "done" /\ intent[1].intentType = "HOURLY_WINDOW"
               /\ Len(weatherData[1].forecast) > 0) =>
    LET i == intent[1]
        w == weatherData[1]
        startH == IF i.startHour = None THEN 0 ELSE i.startHour[1]
        endH == IF i.endHour = None THEN 23 ELSE i.endHour[1]
        hours == HoursOfDayIn(w, startH, endH)
    IN resp.summaryText =
         IF Len(hours) > 0
         THEN <<"will average", w.location.name,
                RoundDiv(SumTempF(hours), Len(hours)), startH, endH>>
         ELSE <<"Weather data retrieved for", w.location.name>>


\* ---------------------------------- specification: saved-locations routes

(* The table before the run: another user's row only, or also three rows   *)
(* of the user as three saves (1000, 2000, 3000) and nine reorders leave   *)
(* them: C after A, B after A, C after A, ... each taking the midpoint     *)
(* 1500, 1250, 1125, 1062, 1031, 1015, 1007, 1003, 1001.                   *)
EarlierSavedRows ==
  {<<SavedRow(OtherUser, "A", 1000)>>,
   <<SavedRow(OtherUser, "A", 1000), SavedRow(SavedUser, "A", 1000),
     SavedRow(SavedUser, "B", 1003), SavedRow(SavedUser, "C", 1001)>>}

InitSaved ==
  /\ EmptyStore
  /\ IdleCallers
  /\ sl = IdleStateLevel
  /\ http = IdleClient
  /\ env = UtcServer
  /\ wx = IdleWeather
  /\ IdleLookup
  /\ \E rows \in EarlierSavedRows :
       saved = [rows |-> rows, requests |-> [c \in Clients |-> IdleRequest], done |-> 0]

NextSaved ==
  \E c \in Clients :
    \/ BeginSave(c)
    \/ ReadMaxSortKey(c)
    \/ InsertSaved(c)
    \/ BeginReorder(c)
    \/ ReadMinSortKey(c)
    \/ SelectAfter(c)
    \/ SelectNext(c)
    \/ UpdateSortKey(c)

SpecSaved == InitSaved /\ [][NextSaved]_vars


(* The save requests alone, in any interleaving. *)
NextSaves ==
  \E c \in Clients :
    \/ BeginSave(c)
    \/ ReadMaxSortKey(c)
    \/ InsertSaved(c)

SpecSaves == InitSaved /\ [][NextSaves]_vars


\* ------------------------------------------------------------------- C24

(* The sort key of the user's row for the location. *)
SortKeyIn(rows, location) == SelectSaved(rows, SavedUser, location)[1].sortKey

(* The locations the user has saved. *)
SavedIn(rows) == {l \in SavedCatalogue : Len(SelectSaved(rows, SavedUser, l)) > 0}

(* In every listing ordered by sort key x comes first (after = None) or    *)
(* right after the given location.                                         *)
PlacedAfter(rows, x, after) ==
  IF after = None
  THEN \A z \in SavedIn(rows) \ {x} : SortKeyIn(rows, x) < SortKeyIn(rows, z)
  ELSE LET y == after[1] IN
       /\ SortKeyIn(rows, y) < SortKeyIn(rows, x)
       /\ \A z \in SavedIn(rows) \ {x, y} :
            \/ SortKeyIn(rows, z) < SortKeyIn(rows, y)
            \/ SortKeyIn(rows, x) < SortKeyIn(rows, z)

(* C24: a reorder of X that succeeds, no other request running beside it,  *)
(* leaves X right after the location it names, or first when it names      *)
(* none, in the list ordered by sort key, and leaves the sort keys of all  *)
(* other saved locations as they were.                                     *)
C24_ReorderPlaces ==
  [][\A c \in Clients :
       LET r == saved.requests[c] IN
       (/\ r.pc = "update" /\ saved'.requests[c].pc = "done"
        /\ ~saved'.requests[c].overlapped
        /\ r.after # Some(r.location))
       => /\ saved'.requests[c].status = 200
          /\ PlacedAfter(saved'.rows, r.location, r.after)
          /\ \A z \in SavedIn(saved.rows) \ {r.location} :
               SortKeyIn(saved'.rows, z) = SortKeyIn(saved.rows, z)]_vars

\* ------------------------------------------------------------------- C25

C28_DistinctSortKeys ==
  \A i, j \in 1..Len(saved.rows) :
    (i # j /\ saved.rows[i].user = SavedUser /\ saved.rows[j].user = SavedUser)
      => saved.rows[i].sortKey # saved.rows[j].sortKey


\* ------------------------------- the routes' store under concurrent calls

InitRoutes ==
  /\ locations \in EarlierStores
  /\ nextId = Len(locations) + 1
  /\ IdleCallers
  /\ sl = IdleStateLevel
  /\ http = IdleClient
  /\ env = UtcServer
  /\ saved = IdleSaved
  /\ wx = IdleWeather
  /\ IdleLookup

NextRoutes ==
  \/ \E c \in Callers : RouteCallStoreOrGetLocation(c)
  \/ \E c \in Callers : RouteSelectExisting(c)
  \/ \E c \in Callers : RouteFetchTimezone(c)
  \/ \E c \in Callers : RouteInsertLocation(c)

(* Concurrent calls of the routes' storeOrGetLocation on one table. *)
SpecRoutes == InitRoutes /\ [][NextRoutes]_vars

(* C29: for every interleaving of the routes' storeOrGetLocation calls for *)
(* one externalId, the store holds one row for it, every finished call     *)
(* returned that row's id, and no request failed.                          *)
C29_RouteStoreTolerant ==
  \A c \in Callers :
    callers[c].pc = "done" =>
      LET held == SelectIdByExternalId(locations, ExternalIdOf(callers[c].locationData[1]))
      IN /\ Len(held) = 1
         /\ RouteStatus(c) = 200
         /\ callers[c].ret = Some(held[1].id)


\* ------------------------------------------------------------------- C26

(* (F - 32) * 5/9 of a Fahrenheit value num/den. *)
CelsiusOf(f) == Ratio((f.num - 32 * f.den) * 5, 9 * f.den)

(* C26: every Celsius value of the snapshot is (F - 32) * 5/9 of its       *)
(* Fahrenheit counterpart, 0 degrees F included: the current tempC, each   *)
(* hourly tempC, and each day's maxTempC, minTempC and avgTempC.           *)
C26_CelsiusConversion ==
  wx.pc = "returned" =>
    LET s == wx.snapshot[1] IN
    /\ s.current.tempC = CelsiusOf(Ratio(s.current.tempF, 1))
    /\ \A i \in 1..Len(s.forecast) :
         LET entry == s.forecast[i] IN
         /\ entry.day.maxTempC = CelsiusOf(Ratio(entry.day.maxTempF, 1))
         /\ entry.day.minTempC = CelsiusOf(Ratio(entry.day.minTempF, 1))
         /\ entry.day.avgTempC = CelsiusOf(entry.day.avgTempF)
         /\ \A h \in 1..Len(entry.hourly) :
              entry.hourly[h].tempC = CelsiusOf(Ratio(entry.hourly[h].tempF, 1))

\* ------------------------------------------------------------------- C30

(* C30: in every entry of the snapshot's forecast the reported low does    *)
(* not exceed the reported high, whatever day and night temperatures the   *)
(* provider supplied.                                                      *)
C30_LowNotAboveHigh ==
  wx.pc = "returned" =>
    \A i \in 1..Len(wx.snapshot[1].forecast) :
      wx.snapshot[1].forecast[i].day.minTempF <= wx.snapshot[1].forecast[i].day.maxTempF


\* ------------------------------------------------------------------- C27

(* C27 as stated: a request that ends in an error response leaves the      *)
(* locations table as it was when the request arrived.                     *)
C27_ErrorLeavesStore ==
  (pc = "done" /\ resp.kind = "error") => Len(locations) = fx.rowsBefore

(* C27, amended: a request that ends in an error response before the       *)
(* forecast fetch leaves the locations table as it was; one that ends in   *)
(* an error of the forecast fetch has added at most one row, the row of    *)
(* the location it resolved, and only when the table did not hold that     *)
(* location already.                                                       *)
C27_ErrorFrame ==
  (pc = "done" /\ resp.kind = "error") =>
    IF fx.weatherCalls = 0
    THEN Len(locations) = fx.rowsBefore
    ELSE /\ Len(locations) <= fx.rowsBefore + 1
         /\ Len(locations) = fx.rowsBefore + 1 =>
              LET row == locations[Len(locations)] IN
              /\ chosen.resolvedLocation # None
              /\ chosen.resolvedLocation[1].id = row.id
              /\ \A k \in 1..fx.rowsBefore : locations[k].external_id # row.external_id

C27_Witness ==
  /\ pc = "done" /\ resp.kind = "error" /\ resp.code = "LOCATION_NOT_SUPPORTED"
  /\ fx.weatherCalls = 1
  /\ fx.rowsBefore = 1 /\ Len(locations) = 2

====
